---- MODULE Spec2Model ----
(***************************************************************************)
(* Download orchestration of youtube-downloader-app.                       *)
(*                                                                         *)
(* The repository ships several front ends over the same external engine   *)
(* (yt-dlp).  The variable program says which one a behaviour runs:        *)
(*   "cli"  youtube_downloader.py   YouTubeDownloader.download_multiple_urls*)
(*   "enh"  enhanced_downloader.py  EnhancedYouTubeDownloader (strategies)  *)
(*   "gui"  gui.py                  YouTubeDownloaderGUI: the window, its   *)
(*          worker threads, the message queue, the tracker and the         *)
(*          registry of subprocesses                                       *)
(*   "mgr"  gui/                    the window of the package, the worker  *)
(*          of DownloadManager and the ProgressTracker                     *)
(*   "unit" functions of these files applied on their own                  *)
(*   "poll" update_messages of either window beside a worker that puts     *)
(*   "patch" run_ytdlp_with_tracking of gui.py, called by several workers  *)
(* The engine is a black box: what it returns, raises or calls back is     *)
(* drawn with \E from small sets.                                          *)
(*                                                                         *)
(* SpecBatch runs the two command-line loops, SpecGui the window with its  *)
(* workers and its consumer, SpecReg the subprocess registry of gui.py on  *)
(* its own (no subprocess is tracked in SpecGui, so terminate_all_processes*)
(* finds the registry empty there), SpecManager the window of the gui      *)
(* package, SpecUnit the functions on their own, SpecPoll the consumer's   *)
(* poll (SpecPollFair with the fairness of the event loop) and SpecPatch   *)
(* the patch of subprocess.run.  Spec is SpecBatch and SpecGui.            *)
(***************************************************************************)
EXTENDS Integers, Sequences, FiniteSets, TLC

\* ------------------------------------------------------------------ bounds
MaxUrls == 2
MaxEntries == 2
\* runs of equal characters in a file name handed to sanitize_filename
MaxPieces == 2
\* worker threads alive at once (gui.py)
MaxRuns == 2
\* progress_hook calls during one engine download
MaxHooks == 1
\* messages waiting on message_queue between two polls of update_messages
MaxQueue == 4
\* subprocesses the engine spawns through the tracked subprocess.run
MaxProcs == 3
\* events followed from the put to the dispatch when the history is kept
MaxTrace == 8
\* entries of the tracker when its functions are applied on their own
MaxTracked == 2
\* lines of the text a batch is read from
MaxLines == 3

\* ------------------------------------------------------------ input values
\* URLs are tokens; the engine, not the orchestration, knows what they denote.
VideoUrls == {"v1"}
PlaylistUrls == {"pl"}
Urls == VideoUrls \cup PlaylistUrls
\* URLs of the videos a playlist listing can hold; None is an unavailable entry.
ChildUrls == {"c1", "c2"}
None == "None"
\* Raw error texts the engine raises with.
Errors == {"Private video", "HTTP Error 500"}
NoError == "-"

SeqsUpTo(S, n) == UNION {[1..k -> S] : k \in 0..n}
Batches == SeqsUpTo(Urls, MaxUrls) \ {<<>>}
Listings == SeqsUpTo(ChildUrls \cup {None}, MaxEntries)
\* What the flat metadata query of a playlist gives: nothing, or a listing.
NoInfo == [found |-> FALSE, entries |-> <<>>]
PlaylistInfos == {NoInfo} \cup {[found |-> TRUE, entries |-> l] : l \in Listings}
\* The strategies of the enhanced downloader, in the order the code tries them.
Strategies == <<"primary", "fallback", "audio">>

Range(s) == {s[k] : k \in DOMAIN s}
Last(s) == s[Len(s)]
\* sum(1 for x in s if P(x)) over a sequence of BOOLEAN
CountTrue(s) == Cardinality({k \in DOMAIN s : s[k]})
\* d[key] = value on a dict: the key is added or its value overwritten
DictSet(d, key, value) == [k \in DOMAIN d \cup {key} |-> IF k = key THEN value ELSE d[k]]
EmptyDict == [k \in {} |-> FALSE]

VARIABLES
  program,              \* which front end runs
  urls,                 \* the batch handed to download_multiple_urls
  i,                    \* enumerate(urls, 1): index of the URL last taken, 0 before the loop
  results,              \* results = {} : dict url -> bool
  outcomes,             \* history: outcomes[k] is the success of the k-th URL processed
  summary,              \* the printed summary: successful, failed, total
  pc,                   \* where the loop stands
  entries,              \* download_playlist_enhanced: info['entries']
  ent,                  \* enumerate(entries, 1): index of the entry last taken
  attempts,             \* calls of download_with_strategy for the item in hand, empty for a new URL
  out,                  \* lines printed for the item in hand
  successful_downloads,
  failed_downloads,
  ret,                  \* return value of the last download_*_enhanced call
  download_stopped,     \* gui.py: self.download_stopped
  current_downloading_url, \* gui.py: self.current_downloading_url
  message_queue,        \* gui.py: self.message_queue, oldest message first
  video_progress,       \* gui.py: self.video_progress, in insertion order
  overall_progress_bar, \* gui.py: self.overall_progress_bar["value"]
  download_button,      \* state of the Download button
  stop_button,          \* state of the Stop button
  threads,              \* gui.py: the download_worker threads still referenced or running
  running_processes,    \* gui.py: self.running_processes, the tracked Popen handles
  processes,            \* the state of each operating-system process
  tracked,              \* the processes the calls of tracked_subprocess_run wait on
  term,                 \* where terminate_all_processes stands, on the GUI thread
  call,                 \* the last call of a function applied on its own: arguments and result
  trace,                \* history: the events put on message_queue and the events dispatched
  manager               \* gui/: the downloader the DownloadManager has, and where update_messages stands

batchVars == <<urls, i, results, outcomes, summary, pc>>
chainVars == <<entries, ent, attempts, out, successful_downloads, failed_downloads, ret>>
guiVars == <<download_stopped, current_downloading_url, message_queue, video_progress,
             overall_progress_bar, download_button, stop_button, threads>>
regVars == <<running_processes, processes, tracked, term>>
vars == <<program, batchVars, chainVars, guiVars, regVars, call, trace, manager>>

\* ------------------------------------------------------------------ texts
\* A string is named by a TLA+ string; Chars gives its characters, cut into
\* pieces so that every text the code searches for, splits at or compares with
\* is a run of whole pieces.  "v1", "c1", "c2" and "pl" are the URLs of the
\* batches and playlists above; None, and a value that is not a str, have no
\* characters.
NotAStr == "12345"
Https == <<"https:", "//">>
Watch(host, id) == Https \o host \o <<"/", "watch", "?", "v", "=", id>>
Short(id) == Https \o <<"youtu.be", "/", id>>
Www == <<"www.", "youtube.com">>
\* the strings of the model
Strings ==
  {"v1",
   "c1",
   "c2",
   "pl",
   "https://www.youtube.com/watch?v=A&t=1",
   "https://youtu.be/A",
   "https://youtu.be/A?t=1",
   "https://youtu.be/B",
   "https://www.youtube.com/watch?v=A&list=PLx",
   "https://www.youtube.com/watch?v=A&list=RDx",
   "https://www.youtube.com/watch?v=A&list=OLx",
   "https://www.youtube.com/watch?v=A&list=plx",
   "https://www.youtube.com/watch?v=A&list=",
   "https://www.youtube.com/watch?v=A&feature=playlist",
   "https://www.youtube.com/watch?v=A#list=PLx",
   "https://www.youtube.com/PlayList?list=x",
   "https://playlist.example.com/watch?v=A",
   "https://youtu.be/A?list=PLx",
   "www.youtube.com/playlist?list=PLx",
   "https://www.notyoutube.com/watch?v=test",
   "https://vimeo.com/123456",
   "http://[::1/playlist",
   "not_a_url",
   "my playlist",
   "",
   "  ",
   "# https://youtu.be/A",
   " https://youtu.be/A ",
   "quit",
   None,
   NotAStr}
Chars(u) ==
  CASE u = "v1" -> Watch(Www, "A")
    [] u = "c1" -> Watch(Www, "B")
    [] u = "c2" -> Watch(Www, "C")
    [] u = "pl" -> Https \o Www \o <<"/", "playlist", "?", "list", "=", "PL", "x">>
    [] u = "https://www.youtube.com/watch?v=A&t=1" -> Watch(Www, "A") \o <<"&", "t", "=", "1">>
    [] u = "https://youtu.be/A" -> Short("A")
    [] u = "https://youtu.be/A?t=1" -> Short("A") \o <<"?", "t", "=", "1">>
    [] u = "https://youtu.be/B" -> Short("B")
    [] u = "https://www.youtube.com/watch?v=A&list=PLx" -> Watch(Www, "A") \o <<"&", "list", "=", "PL", "x">>
    [] u = "https://www.youtube.com/watch?v=A&list=RDx" -> Watch(Www, "A") \o <<"&", "list", "=", "RD", "x">>
    [] u = "https://www.youtube.com/watch?v=A&list=OLx" -> Watch(Www, "A") \o <<"&", "list", "=", "OL", "x">>
    [] u = "https://www.youtube.com/watch?v=A&list=plx" -> Watch(Www, "A") \o <<"&", "list", "=", "pl", "x">>
    [] u = "https://www.youtube.com/watch?v=A&list=" -> Watch(Www, "A") \o <<"&", "list", "=">>
    [] u = "https://www.youtube.com/watch?v=A&feature=playlist" -> Watch(Www, "A") \o <<"&", "feature", "=", "playlist">>
    [] u = "https://www.youtube.com/watch?v=A#list=PLx" -> Watch(Www, "A") \o <<"#", "list", "=", "PL", "x">>
    [] u = "https://www.youtube.com/PlayList?list=x" -> Https \o Www \o <<"/", "PlayList", "?", "list", "=", "x">>
    [] u = "https://playlist.example.com/watch?v=A" -> Watch(<<"playlist", ".example.com">>, "A")
    [] u = "https://youtu.be/A?list=PLx" -> Short("A") \o <<"?", "list", "=", "PL", "x">>
    [] u = "www.youtube.com/playlist?list=PLx" -> Www \o <<"/", "playlist", "?", "list", "=", "PL", "x">>
    [] u = "https://www.notyoutube.com/watch?v=test" -> Watch(<<"www.", "not", "youtube.com">>, "test")
    [] u = "https://vimeo.com/123456" -> Https \o <<"vimeo.com", "/", "123456">>
    [] u = "http://[::1/playlist" -> <<"http:", "//", "[", "::1", "/", "playlist">>
    [] u = "not_a_url" -> <<"not_a_url">>
    [] u = "my playlist" -> <<"my", " ", "playlist">>
    [] u = "" -> <<>>
    [] u = "  " -> <<" ", " ">>
    [] u = "# https://youtu.be/A" -> <<"#", " ">> \o Short("A")
    [] u = " https://youtu.be/A " -> <<" ">> \o Short("A") \o <<" ">>
    [] u = "quit" -> <<"quit">>
    [] OTHER -> <<>>
\* the string with the characters s
Str(s) == CHOOSE u \in Strings \ {None, NotAStr} : Chars(u) = s

\* F applied to the value of x, which is computed once
Bind(x, F(_)) == CHOOSE y \in {F(v) : v \in {x}} : TRUE
\* the smallest number of S, 0 when S is empty
MinOrZero(S) == IF S = {} THEN 0 ELSE CHOOSE k \in S : \A h \in S : k <= h

\* sub occurs in s at position k
IsAt(s, sub, k) ==
  /\ k + Len(sub) - 1 <= Len(s)
  /\ \A h \in 1..Len(sub) : s[k + h - 1] = sub[h]
\* s.find(sub) + 1: where sub first occurs in s, 0 when it does not
Find(s, sub) == MinOrZero({k \in 1..Len(s) : IsAt(s, sub, k)})
\* sub in s
Contains(s, sub) == \E v \in {s} : Find(v, sub) # 0
\* s.split(sep): the parts of s between the occurrences of sep
RECURSIVE split(_, _)
split(s, sep) ==
  Bind(Find(s, sep),
       LAMBDA k : IF k = 0 THEN <<s>>
                  ELSE <<SubSeq(s, 1, k - 1)>>
                       \o Bind(SubSeq(s, k + Len(sep), Len(s)), LAMBDA t : split(t, sep)))
\* s.strip(): without the white space at both ends
RECURSIVE strip(_)
strip(s) ==
  IF s = <<>> THEN s
  ELSE IF Head(s) = " " THEN strip(Tail(s))
  ELSE IF Last(s) = " " THEN strip(SubSeq(s, 1, Len(s) - 1))
  ELSE s
\* s.lower(), on the pieces that hold capital letters
lower(s) ==
  [k \in DOMAIN s |->
     CASE s[k] = "PlayList" -> "playlist"
       [] s[k] = "PL" -> "pl"
       [] s[k] = "RD" -> "rd"
       [] s[k] = "OL" -> "ol"
       [] s[k] = "A" -> "a"
       [] s[k] = "B" -> "b"
       [] s[k] = "C" -> "c"
       [] s[k] = "Cookies" -> "cookies"
       [] s[k] = "Network" -> "network"
       [] s[k] = "Connection" -> "connection"
       [] OTHER -> s[k]]

\* What a call gives: a value, or an exception.
Returns(value) == [raised |-> FALSE, value |-> value]
Raises == [raised |-> TRUE, value |-> FALSE]

\* ------------------------------------------------------- classification
\* urlparse(url): the scheme is taken off, then the host up to the first of
\* / ? #, then the fragment from the first #, then the query from the first ?;
\* what is left is the path.  A value that is not a str comes back with bytes
\* parts (None) or raises (any other type); a host with one square bracket
\* and not the other raises ValueError.
FirstOf(s, delims) ==
  Bind({k \in DOMAIN s : s[k] \in delims},
       LAMBDA hits : IF hits = {} THEN Len(s) + 1 ELSE MinOrZero(hits))
\* the path and the query of what is left without its fragment
PathAndQuery(noFragment) ==
  Bind(FirstOf(noFragment, {"?"}),
       LAMBDA q : Returns([bytes |-> FALSE,
                           path |-> SubSeq(noFragment, 1, q - 1),
                           query |-> SubSeq(noFragment, q + 1, Len(noFragment))]))
\* the parts after the host
AfterNetloc(netloc, afterHost) ==
  IF ("[" \in Range(netloc)) # ("]" \in Range(netloc)) THEN Raises
  ELSE Bind(SubSeq(afterHost, 1, FirstOf(afterHost, {"#"}) - 1), PathAndQuery)
\* the parts after the scheme
AfterScheme(r) ==
  IF r # <<>> /\ r[1] = "//"
  THEN Bind(FirstOf(Tail(r), {"/", "?", "#"}),
            LAMBDA hostEnd : Bind(SubSeq(r, 2, hostEnd),
                                  LAMBDA netloc : Bind(SubSeq(r, hostEnd + 1, Len(r)),
                                                       LAMBDA afterHost : AfterNetloc(netloc, afterHost))))
  ELSE AfterNetloc(<<>>, r)
urlsplit(s) ==
  Bind(IF s # <<>> /\ s[1] \in {"https:", "http:"} THEN Tail(s) ELSE s, AfterScheme)
urlparse(url) ==
  IF url = NotAStr THEN Raises
  ELSE IF url = None THEN Returns([bytes |-> TRUE, path |-> <<>>, query |-> <<>>])
  ELSE Bind(Chars(url), urlsplit)

\* parse_qs(query): the fields between the & signs, each cut at its first =; a
\* field without = or with nothing after it is left out.
QueryField(f) ==
  Bind(FirstOf(f, {"="}),
       LAMBDA e : [name |-> SubSeq(f, 1, e - 1), value |-> SubSeq(f, e + 1, Len(f))])
parse_qs(query) ==
  Bind(split(query, <<"&">>),
       LAMBDA fields : SelectSeq([k \in DOMAIN fields |-> QueryField(fields[k])],
                                 LAMBDA p : p.value # <<>>))

\* The prefixes is_playlist_url takes as the mark of a playlist id.
PlaylistPrefixes == {"PL", "UU", "FL", "RD", "LL"}

\* Variant for C18: the test on the path without lower().
is_playlist_url_parsed_CaseSensitive(parsed_url) ==
  IF parsed_url.raised THEN Raises
  ELSE IF parsed_url.value.bytes THEN Raises
  ELSE IF Contains(parsed_url.value.path, <<"playlist">>) THEN Returns(TRUE)
  ELSE Bind(SelectSeq(parse_qs(parsed_url.value.query), LAMBDA p : p.name = <<"list">>),
            LAMBDA lists : IF lists # <<>>
                           THEN Returns(lists[1].value[1] \in PlaylistPrefixes)
                           ELSE Returns(FALSE))

\* The body of the try of is_playlist_url, past urlparse.
is_playlist_url_parsed(parsed_url) ==
  IF parsed_url.raised THEN Raises
  ELSE IF parsed_url.value.bytes THEN Raises      \* 'playlist' in b'': TypeError
  ELSE IF Contains(lower(parsed_url.value.path), <<"playlist">>) THEN Returns(TRUE)
  ELSE Bind(SelectSeq(parse_qs(parsed_url.value.query), LAMBDA p : p.name = <<"list">>),
            LAMBDA lists : IF lists # <<>>
                           THEN Returns(lists[1].value[1] \in PlaylistPrefixes)
                           ELSE Returns(FALSE))
\* The body of the try of is_playlist_url.
is_playlist_url_try(url) == Bind(urlparse(url), is_playlist_url_parsed)

\* Variant for C19: the function without its except clause.
is_playlist_url_call_NoExcept(url) == is_playlist_url_try(url)

\* is_playlist_url as a call: "except Exception: return False".
is_playlist_url_call(url) ==
  Bind(is_playlist_url_try(url), LAMBDA r : IF r.raised THEN Returns(FALSE) ELSE r)

\* is_playlist_url(url), where it is called on a URL of a batch; the calls
\* are computed once for every string.
IsPlaylistUrl == [url \in Strings |-> is_playlist_url_call(url)]
is_playlist_url(url) == IsPlaylistUrl[url].value

NoSummary == [successful |-> -1, failed |-> -1, total |-> -1]

\* No function has been applied on its own.
NoCall == [op |-> "none"]
\* The window of the gui package is not running.
NoManager == [methods |-> {}, consumer |-> [pc |-> "idle"]]
\* The history of the event channel: whether it is kept, every message put
\* and every message update_messages has dispatched, both oldest first.
TraceOff == [on |-> FALSE, sent |-> <<>>, handled |-> <<>>]
TraceOn == [on |-> TRUE, sent |-> <<>>, handled |-> <<>>]

InitChain ==
  /\ entries = <<>>
  /\ ent = 0
  /\ attempts = <<>>
  /\ out = <<>>
  /\ successful_downloads = 0
  /\ failed_downloads = 0
  /\ ret = FALSE

Pids == 1..MaxProcs

\* terminate_all_processes is not running.  first and second are the copies
\* its two loops took, rounds what the loops did so far (history).
NoTerm == [pc |-> "idle", copy |-> <<>>, k |-> 0, first |-> <<>>, second |-> <<>>,
           rounds |-> <<>>]

\* The window of gui.py before any click.
InitWindow ==
  /\ download_stopped = FALSE
  /\ current_downloading_url = None
  /\ message_queue = <<>>
  /\ video_progress = <<>>
  /\ overall_progress_bar = 0
  /\ download_button = "normal"
  /\ stop_button = "disabled"
  /\ threads = <<>>
  /\ running_processes = <<>>
  /\ processes = [p \in Pids |-> "unborn"]
  /\ tracked = {}
  /\ term = NoTerm
  /\ manager = NoManager

InitBatch ==
  /\ program \in {"cli", "enh"}
  /\ InitWindow
  /\ call = NoCall
  /\ trace = TraceOff
  /\ urls \in Batches
  /\ i = 0
  /\ results = EmptyDict
  /\ outcomes = <<>>
  /\ summary = NoSummary
  /\ pc = "loop"
  /\ InitChain

\* ------------------------------------------------ youtube_downloader.py
\* download_single_video: the metadata query may raise (then the download is
\* tried anyway) or report a private / premium-only video (False); the
\* download itself returns or raises (False).
Availabilities == {"public", "private", "premium_only"}
download_single_video(probe, dl) ==
  IF probe \in {"private", "premium_only"} THEN FALSE
  ELSE dl = "ok"

\* download_playlist: no info or no entries is False; otherwise success is
\* decided by the number of media files found in the playlist folder.
download_playlist(info, files) ==
  IF ~info.found THEN FALSE
  ELSE IF Len(info.entries) = 0 THEN FALSE
  ELSE files > 0

\* results[url] = success, and the history of outcomes
Record(url, success) ==
  /\ results' = DictSet(results, url, success)
  /\ outcomes' = Append(outcomes, success)

\* One iteration of the for loop of download_multiple_urls: download_url
\* returns success, or an exception escapes it and the URL is recorded False.
CliDownloadUrl ==
  /\ program = "cli"
  /\ pc = "loop"
  /\ i < Len(urls)
  /\ i' = i + 1
  /\ LET url == urls[i + 1] IN
       \/ /\ ~is_playlist_url(url)
          /\ \E probe \in Availabilities \cup {"raise"}, dl \in {"ok", "raise"} :
               Record(url, download_single_video(probe, dl))
       \/ /\ is_playlist_url(url)
          /\ \E info \in PlaylistInfos :
               \E files \in 0..Len(info.entries) :
                 Record(url, download_playlist(info, files))
       \/ Record(url, FALSE)          \* except Exception: results[url] = False
  /\ UNCHANGED <<guiVars, regVars, program, manager, call, trace, urls, summary, pc, chainVars>>

\* ------------------------------------------------ enhanced_downloader.py
\* Variant for C6: a failure line that keeps the strategy but not its error.
StrategyFailedLine_WithoutError(strategy, err) ==
  [kind |-> "strategy_failed", strategy |-> strategy, err |-> NoError]

\* download_with_strategy's except branch prints the strategy and its error.
StrategyFailedLine(strategy, err) ==
  [kind |-> "strategy_failed", strategy |-> strategy, err |-> err]
\* "All download strategies failed" / "Failed to download": no error text.
AllFailedLine == [kind |-> "all_failed", strategy |-> "-", err |-> NoError]
EntryFailedLine == [kind |-> "entry_failed", strategy |-> "-", err |-> NoError]

\* Variant for C5: a cascade that goes on to the next strategy after a success.
ChainContinues_AfterSuccess(atts) == Len(atts) < Len(Strategies)

\* The if / elif cascade over download_with_strategy: the next strategy is
\* tried while there is one left and the previous call returned False.
ChainContinues(atts) ==
  /\ Len(atts) < Len(Strategies)
  /\ (IF atts = <<>> THEN TRUE ELSE ~Last(atts).ok)

\* download_url of the enhanced downloader, up to the first engine download:
\* a single video enters the chain; a playlist is listed first.
EnhBeginUrl ==
  /\ program = "enh"
  /\ pc = "loop"
  /\ i < Len(urls)
  /\ i' = i + 1
  /\ LET url == urls[i + 1] IN
       \/ /\ ~is_playlist_url(url)
          /\ pc' = "single"
          /\ attempts' = <<>>
          /\ out' = <<>>
          /\ UNCHANGED <<results, outcomes, entries, ent, successful_downloads,
                         failed_downloads, ret>>
       \/ /\ is_playlist_url(url)
          /\ \E info \in PlaylistInfos :
               IF ~info.found \/ Len(info.entries) = 0
               THEN \* extract_info raised, gave nothing, or "if not entries"
                    /\ ret' = FALSE
                    /\ Record(url, FALSE)
                    /\ attempts' = <<>>
                    /\ out' = <<>>
                    /\ UNCHANGED <<pc, entries, ent, successful_downloads, failed_downloads>>
               ELSE /\ entries' = info.entries
                    /\ ent' = 0
                    /\ successful_downloads' = 0
                    /\ failed_downloads' = 0
                    /\ pc' = "playlist"
                    /\ attempts' = <<>>
                    /\ out' = <<>>
                    /\ UNCHANGED <<results, outcomes, ret>>
       \/ /\ Record(url, FALSE)       \* except Exception: results[url] = False
          /\ attempts' = <<>>
          /\ out' = <<>>
          /\ UNCHANGED <<pc, entries, ent, successful_downloads, failed_downloads, ret>>
  /\ UNCHANGED <<guiVars, regVars, program, manager, call, trace, urls, summary>>

\* One call of download_with_strategy(url, template, strategy): the engine
\* download returns (True) or raises (the error is printed, False).
EnhAttempt ==
  /\ program = "enh"
  /\ pc \in {"single", "entry"}
  /\ ChainContinues(attempts)
  /\ LET strategy == Strategies[Len(attempts) + 1] IN
       \/ /\ attempts' = Append(attempts, [strategy |-> strategy, ok |-> TRUE, err |-> NoError])
          /\ out' = out
       \/ \E err \in Errors :
            /\ attempts' = Append(attempts, [strategy |-> strategy, ok |-> FALSE, err |-> err])
            /\ out' = Append(out, StrategyFailedLine(strategy, err))
  /\ UNCHANGED <<guiVars, regVars, program, manager, call, trace, batchVars, entries, ent, successful_downloads,
                 failed_downloads, ret>>

\* download_single_video_enhanced returns: True after the first success,
\* False (after printing that all strategies failed) when none succeeded.
EnhSingleReturn ==
  /\ program = "enh"
  /\ pc = "single"
  /\ ~ChainContinues(attempts)
  /\ ret' = Last(attempts).ok
  /\ out' = IF Last(attempts).ok THEN out ELSE Append(out, AllFailedLine)
  /\ Record(urls[i], Last(attempts).ok)
  /\ pc' = "loop"
  /\ UNCHANGED <<guiVars, regVars, program, manager, call, trace, urls, i, summary, entries, ent, attempts,
                 successful_downloads, failed_downloads>>

\* for i, entry in enumerate(entries, 1): a None entry is skipped, any other
\* entry is downloaded with the strategies.
EnhNextEntry ==
  /\ program = "enh"
  /\ pc = "playlist"
  /\ ent < Len(entries)
  /\ ent' = ent + 1
  /\ IF entries[ent + 1] = None
     THEN UNCHANGED <<pc, attempts, out>>
     ELSE /\ pc' = "entry"
          /\ attempts' = <<>>
          /\ out' = <<>>
  /\ UNCHANGED <<guiVars, regVars, program, manager, call, trace, urls, i, results, outcomes, summary, entries,
                 successful_downloads, failed_downloads, ret>>

\* The end of the cascade for one playlist entry: the counters.
EnhEntryDone ==
  /\ program = "enh"
  /\ pc = "entry"
  /\ ~ChainContinues(attempts)
  /\ IF Last(attempts).ok
     THEN /\ successful_downloads' = successful_downloads + 1
          /\ UNCHANGED <<failed_downloads, out>>
     ELSE /\ failed_downloads' = failed_downloads + 1
          /\ out' = Append(out, EntryFailedLine)
          /\ UNCHANGED successful_downloads
  /\ pc' = "playlist"
  /\ UNCHANGED <<guiVars, regVars, program, manager, call, trace, urls, i, results, outcomes, summary, entries, ent,
                 attempts, ret>>

\* download_playlist_enhanced returns successful_downloads > 0.
EnhPlaylistReturn ==
  /\ program = "enh"
  /\ pc = "playlist"
  /\ ent = Len(entries)
  /\ ret' = (successful_downloads > 0)
  /\ Record(urls[i], successful_downloads > 0)
  /\ pc' = "loop"
  /\ UNCHANGED <<guiVars, regVars, program, manager, call, trace, urls, i, summary, entries, ent, attempts, out,
                 successful_downloads, failed_downloads>>

\* After the loop: successful = sum(1 for success in results.values() if success),
\* failed = total_urls - successful.
Summary(res, total) ==
  LET successful == Cardinality({u \in DOMAIN res : res[u]})
  IN [successful |-> successful, failed |-> total - successful, total |-> total]

PrintSummary ==
  /\ program \in {"cli", "enh"}
  /\ pc = "loop"
  /\ i = Len(urls)
  /\ summary' = Summary(results, Len(urls))
  /\ pc' = "done"
  /\ UNCHANGED <<guiVars, regVars, program, manager, call, trace, urls, i, results, outcomes, chainVars>>

\* ================================================================= gui.py
\* A text built with an f-string: the literal with its holes, and the numbers
\* that fill them.
Fmt(text, args) == [text |-> text, args |-> args]
Text(text) == Fmt(text, <<>>)
NoStatus == Text("")                  \* data.get("status") is None
NoTitle == Text("")                   \* data.get("title") is None
NoProgress == -1                      \* data.get("progress") is None
\* info.get('title') / entry.get('title'): the title the engine knows for url
EngineTitle(url) == Fmt(url, <<>>)

\* The texts the matching of tracked URLs looks for.
WatchPattern == <<"youtube.com", "/", "watch", "?", "v", "=">>   \* 'youtube.com/watch?v='
WatchKey == <<"watch", "?", "v", "=">>                           \* 'watch?v='
ShortPattern == <<"youtu.be", "/">>                              \* 'youtu.be/'
\* s.split(sep)[1].split(stop)[0]; split(sep)[1] raises IndexError when sep
\* is not in s.
IdAfter(s, sep, stop) ==
  Bind(split(s, sep),
       LAMBDA parts : IF Len(parts) < 2 THEN Raises ELSE Returns(split(parts[2], stop)[1]))

\* ---- the messages the worker puts on message_queue: (message_type, data)
Message(type, url, status, progress, title, index) ==
  [type |-> type, url |-> url, status |-> status, progress |-> progress,
   title |-> title, index |-> index]
VideoProgressMsg(url, status, progress, title) ==
  Message("video_progress", url, status, progress, title, <<>>)
AddPlaylistVideoMsg(index, title, url) ==
  Message("add_playlist_video", url, NoStatus, NoProgress, title, index)
LogMsg(text) == Message("log", None, text, NoProgress, NoTitle, <<>>)
OverallProgressMsg(text) == Message("overall_progress", None, text, NoProgress, NoTitle, <<>>)
CurrentProgressMsg(percent) ==
  Message("current_progress", None, NoStatus, percent, NoTitle, <<>>)
UpdateOverallMsg == Message("update_overall", None, NoStatus, NoProgress, NoTitle, <<>>)
CompleteMsg(s) ==
  Message("complete", None, NoStatus, NoProgress, NoTitle, <<s.successful, s.failed, s.total>>)
ErrorMsg(text) == Message("error", None, text, NoProgress, NoTitle, <<>>)

\* ---- the tracker: self.video_progress
\* position of the entry stored under key url, 0 when url is not a key
KeyIndex(vp, url) ==
  IF \E k \in DOMAIN vp : vp[k].url = url
  THEN CHOOSE k \in DOMAIN vp : vp[k].url = url
  ELSE 0

clear_video_progress == <<>>

\* Variant for C11: add_video_to_progress without the test for a tracked URL;
\* the entry of a URL already tracked is written anew.
add_video_to_progress_Overwrites(vp, index, title, url) ==
  IF KeyIndex(vp, url) # 0
  THEN [vp EXCEPT ![KeyIndex(vp, url)] =
          [url |-> url, item_id |-> Len(vp) + 1, index |-> index, title |-> title,
           status |-> Text("Pending"), progress |-> 0]]
  ELSE Append(vp, [url |-> url, item_id |-> Len(vp) + 1, index |-> index, title |-> title,
                   status |-> Text("Pending"), progress |-> 0])

\* add_video_to_progress: a URL already tracked is skipped, a new one starts
\* at "Pending", 0.  item_id is the id videos_tree.insert gives the new row,
\* named here by the row's position in the tree.
add_video_to_progress(vp, index, title, url) ==
  IF KeyIndex(vp, url) # 0 THEN vp
  ELSE Append(vp, [url |-> url, item_id |-> Len(vp) + 1, index |-> index, title |-> title,
                   status |-> Text("Pending"), progress |-> 0])
\* what add_video_to_progress returns: the item_id of the entry of url
add_video_to_progress_ret(vp, index, title, url) ==
  LET after == add_video_to_progress(vp, index, title, url)
  IN after[KeyIndex(after, url)].item_id

\* Variant for C13: only two watch URLs are compared; the youtu.be branch is
\* left out.
KeyMatches_WatchOnly(url, key) ==
  \E u \in {Chars(url)}, k \in {Chars(key)} :
    IF Contains(u, WatchPattern) /\ Contains(k, WatchPattern)
    THEN IdAfter(u, WatchKey, <<"&">>).value = IdAfter(k, WatchKey, <<"&">>).value
    ELSE FALSE

\* The body of the try in the loop over self.video_progress.keys(): whether
\* key is taken as the entry of url.  An IndexError of split(...)[1] is caught
\* and the key is passed over.
KeyMatches(url, key) ==
  \E u \in {Chars(url)}, k \in {Chars(key)} :
    IF Contains(u, WatchPattern) /\ Contains(k, WatchPattern)
    THEN IdAfter(u, WatchKey, <<"&">>).value = IdAfter(k, WatchKey, <<"&">>).value
    ELSE IF Contains(u, ShortPattern) \/ Contains(k, ShortPattern)
         THEN \E url_id \in {IF Contains(u, ShortPattern)
                             THEN IdAfter(u, ShortPattern, <<"?">>)
                             ELSE IdAfter(u, WatchKey, <<"&">>)},
                 key_id \in {IF Contains(k, ShortPattern)
                             THEN IdAfter(k, ShortPattern, <<"?">>)
                             ELSE IdAfter(k, WatchKey, <<"&">>)} :
                IF url_id.raised \/ key_id.raised THEN FALSE
                ELSE url_id.value = key_id.value
         ELSE FALSE

\* KeyMatches, computed once for every pair of strings.
KeyMatchesOf == [url \in Strings |-> [key \in Strings |-> KeyMatches(url, key)]]

\* Variant for C12: the first key that matches by video id is taken before
\* the exact key is looked for.
MatchedIndex_ByIdFirst(vp, url) ==
  IF \E k \in DOMAIN vp : KeyMatchesOf[url][vp[k].url]
  THEN CHOOSE k \in DOMAIN vp :
         /\ KeyMatchesOf[url][vp[k].url]
         /\ \A h \in 1..(k - 1) : ~KeyMatchesOf[url][vp[h].url]
  ELSE KeyIndex(vp, url)

\* The entry update_video_progress works on: the exact key, else the first
\* key in insertion order that matches by video id, else none (0).
MatchedIndex(vp, url) ==
  IF KeyIndex(vp, url) # 0 THEN KeyIndex(vp, url)
  ELSE IF \E k \in DOMAIN vp : KeyMatchesOf[url][vp[k].url]
       THEN CHOOSE k \in DOMAIN vp :
              /\ KeyMatchesOf[url][vp[k].url]
              /\ \A h \in 1..(k - 1) : ~KeyMatchesOf[url][vp[h].url]
       ELSE 0

\* update_video_progress: whatever the entry holds, the status, progress and
\* title that are given overwrite it.
update_video_progress(vp, url, status, progress, title) ==
  LET k == MatchedIndex(vp, url) IN
  IF k = 0 THEN vp
  ELSE [vp EXCEPT ![k] =
          [@ EXCEPT !.status = IF status # NoStatus THEN status ELSE @,
                    !.progress = IF progress # NoProgress THEN progress ELSE @,
                    !.title = IF title # NoTitle THEN title ELSE @]]

\* ---- the tracker of gui/progress_tracker.py
\* ProgressTracker._extract_video_id: the id cut out of url, None when url
\* has neither pattern or the cutting raises.
NoId == [none |-> TRUE, id |-> <<>>]
extract_video_id_of(u) ==
  Bind(IF Contains(u, WatchPattern) THEN IdAfter(u, WatchKey, <<"&">>)
       ELSE IF Contains(u, ShortPattern) THEN IdAfter(u, ShortPattern, <<"?">>)
       ELSE Raises,
       LAMBDA cut : IF cut.raised THEN NoId ELSE [none |-> FALSE, id |-> cut.value])
\* the same on a value: None is no str and the test "in" on it raises
extract_video_id(url) ==
  IF url = None THEN NoId ELSE Bind(Chars(url), extract_video_id_of)
\* _extract_video_id on what _extract_video_id has returned
extract_video_id_again(r) ==
  IF r.none THEN extract_video_id(None) ELSE extract_video_id_of(r.id)
\* ProgressTracker._urls_match: id1 == id2 if id1 and id2 else False
urls_match(url1, url2) ==
  \E id1 \in {extract_video_id(url1)}, id2 \in {extract_video_id(url2)} :
    IF id1.id # <<>> /\ id2.id # <<>> THEN id1.id = id2.id ELSE FALSE
\* ProgressTracker._find_video_by_url: the exact key, else the first key in
\* insertion order that _urls_match takes, else None (0).
UrlsMatchOf == [url1 \in Strings |-> [url2 \in Strings |-> urls_match(url1, url2)]]
find_video_by_url(vp, url) ==
  IF KeyIndex(vp, url) # 0 THEN KeyIndex(vp, url)
  ELSE IF \E k \in DOMAIN vp : UrlsMatchOf[url][vp[k].url]
       THEN CHOOSE k \in DOMAIN vp :
              /\ UrlsMatchOf[url][vp[k].url]
              /\ \A h \in 1..(k - 1) : ~UrlsMatchOf[url][vp[h].url]
       ELSE 0
\* ProgressTracker.update_video_progress
tracker_update_video_progress(vp, url, status, progress, title) ==
  LET k == find_video_by_url(vp, url) IN
  IF k = 0 THEN vp
  ELSE [vp EXCEPT ![k] =
          [@ EXCEPT !.status = IF status # NoStatus THEN status ELSE @,
                    !.progress = IF progress # NoProgress THEN progress ELSE @,
                    !.title = IF title # NoTitle THEN title ELSE @]]

\* The statuses update_overall_progress counts as finished.
CountedStatuses == {Text("Completed"), Text("Failed")}

\* update_overall_progress: nothing happens on an empty tracker; otherwise the
\* bar is set to (completed / total) * 100, kept here rounded down.
update_overall_progress(vp, bar) ==
  IF vp = <<>> THEN bar
  ELSE LET completed == Cardinality({k \in DOMAIN vp : vp[k].status \in CountedStatuses})
           total == Len(vp)
       IN (completed * 100) \div total

\* ---- the error texts and their classification
NoneTypeError == "argument of type 'NoneType' is not iterable"
\* str(e) of further errors the engine raises with
ErrorTexts ==
  Errors \cup {NoneTypeError,
               "ERROR: Private video. Sign in if you've been granted access",
               "Video unavailable", "Sign in to confirm your age",
               "Use --cookies for authentication", "Cookies file not found",
               "Network is unreachable", "Connection refused", "private video"}
\* The characters of an error text, cut so that the texts the classification
\* looks for are whole pieces.
ErrorChars(e) ==
  CASE e = "ERROR: Private video. Sign in if you've been granted access"
         -> <<"ERROR: ", "Private video", ". ", "Sign in", " if you've been granted access">>
    [] e = "Sign in to confirm your age" -> <<"Sign in", " to confirm your age">>
    [] e = "Use --cookies for authentication" -> <<"Use --", "cookies", " for authentication">>
    [] e = "Cookies file not found" -> <<"Cookies", " file not found">>
    [] e = "Network is unreachable" -> <<"Network", " is unreachable">>
    [] e = "Connection refused" -> <<"Connection", " refused">>
    [] OTHER -> <<e>>
\* status of the except branch of the URL loop
UrlErrorStatus(error_msg) ==
  LET s == ErrorChars(error_msg) IN
  IF Contains(s, <<"Private video">>) THEN Text("Private/Restricted")
  ELSE IF Contains(s, <<"Video unavailable">>) THEN Text("Unavailable")
  ELSE IF Contains(s, <<"Sign in">>) THEN Text("Login Required")
  ELSE IF Contains(lower(s), <<"cookies">>) THEN Text("Auth Required")
  ELSE IF Contains(lower(s), <<"network">>) \/ Contains(lower(s), <<"connection">>)
       THEN Text("Network Error")
       ELSE Text("Failed")
\* friendly_error of the except branch of the playlist loop
EntryErrorStatus(error_msg) ==
  LET s == ErrorChars(error_msg) IN
  IF Contains(s, <<"Private video">>) THEN Text("Private/Restricted")
  ELSE IF Contains(s, <<"Video unavailable">>) THEN Text("Unavailable")
  ELSE IF Contains(s, <<"Sign in">>) THEN Text("Login Required")
  ELSE Text("Failed")

\* ---- the progress hook handed to the engine
\* d['filename']: the files of one download as the engine names them, the
\* merged or single-format file, the two streams of a merge and a subtitle.
Filenames == {"video.mp4", "video.f137.mp4", "video.f140.m4a", "video.en.vtt"}
\* further files an engine call can report
MoreFilenames == {"video.en.srt", "video.webm", "video.mp3", "video.f251.webm", "video.f18.mp4"}
FileChars(f) ==
  CASE f = "video.mp4" -> <<"video", ".", "mp4">>
    [] f = "video.f137.mp4" -> <<"video", ".", "f137", ".", "mp4">>
    [] f = "video.f140.m4a" -> <<"video", ".", "f140", ".", "m4a">>
    [] f = "video.en.vtt" -> <<"video", ".", "en", ".", "vtt">>
    [] f = "video.en.srt" -> <<"video", ".", "en", ".", "srt">>
    [] f = "video.webm" -> <<"video", ".", "webm">>
    [] f = "video.mp3" -> <<"video", ".", "mp3">>
    [] f = "video.f251.webm" -> <<"video", ".", "f251", ".", "webm">>
    [] f = "video.f18.mp4" -> <<"video", ".", "f18", ".", "mp4">>
\* the i of the pieces 'f{i}'
FormatPieces == {"f137", "f140", "f251", "f18"}
FormatNumber(t) ==
  CASE t = "f137" -> 137 [] t = "f140" -> 140 [] t = "f251" -> 251 [] t = "f18" -> 18
\* The tests of the hooks on the file name, computed once for every file.
FileTests ==
  [f \in Filenames \cup MoreFilenames |->
     Bind(FileChars(f),
          LAMBDA n : [srt |-> Contains(n, <<".", "srt">>),
                      vtt |-> Contains(n, <<".", "vtt">>),
                      m4a |-> Contains(n, <<".", "m4a">>),
                      webm |-> Contains(n, <<".", "webm">>),
                      mp3 |-> Contains(n, <<".", "mp3">>),
                      format_id |-> \E t \in FormatPieces :
                                      /\ FormatNumber(t) \in 100..998
                                      /\ Contains(n, <<".", t, ".">>)])]
\* '.srt' in filename or '.vtt' in filename
IsSubtitle(f) == FileTests[f].srt \/ FileTests[f].vtt
\* '.m4a' in filename or '.webm' in filename
HasM4aOrWebm(f) == FileTests[f].m4a \/ FileTests[f].webm
\* '.m4a' in filename or '.webm' in filename or '.mp3' in filename
HasAudioExt(f) == FileTests[f].m4a \/ FileTests[f].webm \/ FileTests[f].mp3
\* any(f'.f{i}.' in filename for i in range(100, 999))
HasFormatId(f) == FileTests[f].format_id
\* percent of a 'downloading' event: downloaded / total * 100, 50 without a total
Percents == {50}
HookEvents == [status : {"downloading", "finished"}, filename : Filenames, percent : Percents]

\* progress_hook without its test of download_stopped
progress_hook_IgnoresStop(d, stopped, cur) ==
  IF d.status = "downloading"
  THEN <<CurrentProgressMsg(d.percent)>>
       \o (IF cur # None THEN <<VideoProgressMsg(cur, Text("Downloading"), d.percent, NoTitle)>>
           ELSE <<>>)
  ELSE IF cur # None
       THEN <<VideoProgressMsg(cur, Text("Processing"), 100, NoTitle), CurrentProgressMsg(100)>>
       ELSE <<>>

\* The methods of the window or of the manager that progress_hook calls:
\* terminate_all_processes (_terminate_all_processes in gui/) when
\* download_stopped is set, none otherwise.
progress_hook_calls(impl, stopped) ==
  IF stopped
  THEN <<IF impl = "gui.py" THEN "terminate_all_processes" ELSE "_terminate_all_processes">>
  ELSE <<>>

\* progress_hook(d): the messages it puts, given the stop flag and the current URL
progress_hook(d, stopped, cur) ==
  IF stopped THEN <<>>
  ELSE IF d.status = "downloading"
       THEN IF IsSubtitle(d.filename) \/ (HasFormatId(d.filename) /\ HasM4aOrWebm(d.filename))
            THEN <<>>
            ELSE <<CurrentProgressMsg(d.percent)>>
                 \o (IF cur # None
                     THEN <<VideoProgressMsg(cur, Text("Downloading"), d.percent, NoTitle)>>
                     ELSE <<>>)
       ELSE IF cur # None /\ ~IsSubtitle(d.filename) /\ ~HasAudioExt(d.filename)
                          /\ ~HasFormatId(d.filename)
            THEN <<VideoProgressMsg(cur, Text("Processing"), 100, NoTitle),
                   CurrentProgressMsg(100)>>
            ELSE <<>>

\* The progress hook of gui/download_manager.py: the messages it puts.  A
\* 'downloading' event is passed over when the file name holds '.vtt' or
\* '.srt' ('fragment' and 'temp' are in none of the names here) and reported
\* when its sizes are known; a 'finished' event is reported for every file.
manager_progress_hook(d, stopped, cur) ==
  IF stopped THEN <<>>
  ELSE IF d.status = "downloading"
       THEN IF IsSubtitle(d.filename) THEN <<>>
            ELSE <<CurrentProgressMsg(d.percent)>>
                 \o (IF cur # None
                     THEN <<VideoProgressMsg(cur, Text("Downloading"), d.percent, NoTitle)>>
                     ELSE <<>>)
       ELSE IF cur # None
            THEN <<VideoProgressMsg(cur, Text("Completed"), 100, NoTitle)>>
            ELSE <<>>

\* ---- the listing of a playlist
\* Variant for C34: every entry of the listing is kept
filter_entries_KeepsAll(listing) ==
  [available_entries |-> listing, unavailable_count |-> 0]
\* available_entries and unavailable_count of a listing: the entries that are
\* None are counted, the others kept in their order.
filter_entries(listing) ==
  [available_entries |-> SelectSeq(listing, LAMBDA e : e # None),
   unavailable_count |-> Cardinality({k \in DOMAIN listing : listing[k] = None})]
\* The log lines about the listing: gui.py puts one for every playlist, with
\* the count in it when the count is positive; gui/ puts one only then.
listing_log(impl, total_entries, available, unavailable_count) ==
  IF impl = "gui.py"
  THEN <<LogMsg(IF unavailable_count > 0
                THEN Fmt("Found playlist: with %d videos (%d private/unavailable)",
                         <<total_entries, unavailable_count>>)
                ELSE Fmt("Found playlist: with %d videos", <<available>>))>>
  ELSE IF unavailable_count > 0
       THEN <<LogMsg(Fmt("%d videos in playlist are unavailable", <<unavailable_count>>))>>
       ELSE <<>>

\* f'{n:02d}': the digits of n, at least two of them
Pad2(n) == IF n < 100 THEN <<n \div 10, n % 10>> ELSE <<n \div 100, (n \div 10) % 10, n % 10>>
\* The videos of a listing that are downloaded, each with the number at the
\* head of its file name and (history) its position in the listing.
\* enhanced_downloader.py: enumerate(entries, 1) over the whole listing, a
\* None entry passed over.  gui.py: enumerate(available_entries), the number
\* is j + 1; a video whose URL was taken before is passed over.
numbered_children(impl, listing) ==
  LET positions == SelectSeq([k \in DOMAIN listing |-> k], LAMBDA k : listing[k] # None)
      child(k, n) == [url |-> listing[k], number |-> Pad2(n), position |-> k]
  IN IF impl = "enh"
     THEN [j \in DOMAIN positions |-> child(positions[j], positions[j])]
     ELSE LET all == [j \in DOMAIN positions |-> child(positions[j], j)]
              first(j) == \A h \in 1..(j - 1) : all[h].url # all[j].url
              kept == SelectSeq([j \in DOMAIN all |-> j], first)
          IN [j \in DOMAIN kept |-> all[kept[j]]]

\* ---- the worker thread: download_worker(urls)
NewThread(batch) ==
  [urls |-> batch, i |-> 0, pc |-> "top", results |-> EmptyDict,
   outcomes |-> <<>>,          \* history: success of each URL processed, in order
   summary |-> NoSummary,      \* data of the "complete" message
   available_entries |-> <<>>, unavailable_count |-> 0, j |-> 0,
   playlist_success |-> 0, playlist_failed |-> 0, processed_videos |-> {},
   video_url |-> None,
   final_status |-> NoStatus,  \* history: the final status of the playlist in hand
   hooks |-> 0,                \* progress_hook calls of the engine call in hand
   cancelled_at |-> -1,        \* history: i when stop_download first ran, else -1
   cancelled_in |-> "",        \* history: pc when stop_download first ran
   cancelled_child |-> 0]      \* history, gui package: the child the engine had in hand then
Alive(t) == t.pc # "done"

\* self.message_queue = queue.Queue(): maxsize is left at its default, 0,
\* for which Queue.full() is never true and put() never blocks.
maxsize == 0
full(q) == maxsize > 0 /\ Len(q) >= maxsize

\* message_queue.put for each message of msgs, in order; put() waits while
\* the queue is full.
Put(msgs) ==
  /\ ~full(message_queue)
  /\ Len(message_queue) + Len(msgs) <= MaxQueue
  /\ message_queue' = message_queue \o msgs
  /\ IF trace.on
     THEN /\ Len(trace.sent) + Len(msgs) <= MaxTrace
          /\ trace' = [trace EXCEPT !.sent = @ \o msgs]
     ELSE UNCHANGED trace

\* Final playlist status: the status text and results[url].
PlaylistFinal(success, available, unavailable) ==
  IF success = available
  THEN [status |-> Text("Completed"), result |-> TRUE]
  ELSE IF success > 0
       THEN [status |-> IF unavailable > 0
                        THEN Fmt("Partial (%d/%d) +%d unavailable", <<success, available, unavailable>>)
                        ELSE Fmt("Partial (%d/%d)", <<success, available>>),
             result |-> TRUE]
       ELSE [status |-> IF unavailable > 0
                        THEN Fmt("Failed (%d unavailable)", <<unavailable>>)
                        ELSE Text("Failed"),
             result |-> FALSE]

\* Bound on the exploration: a batch is started next to a worker that is
\* still running only when neither batch holds a playlist.
Overlappable(batch, running) ==
  \A u \in Range(batch) \cup Range(running) : ~is_playlist_url(u)

\* start_download, past the validation of the URL text.
StartDownload ==
  /\ program = "gui"
  /\ download_button = "normal"
  /\ Len(SelectSeq(threads, Alive)) < MaxRuns
  /\ \E batch \in Batches :
       /\ \A k \in DOMAIN threads : Alive(threads[k]) => Overlappable(batch, threads[k].urls)
       /\ download_button' = "disabled"
       /\ stop_button' = "normal"
       /\ download_stopped' = FALSE
       /\ overall_progress_bar' = 0
       /\ LET Populate[k \in 0..Len(batch)] ==
                IF k = 0 THEN clear_video_progress
                ELSE add_video_to_progress(Populate[k - 1], <<k>>, Fmt("Video %d", <<k>>), batch[k])
          IN video_progress' = Populate[Len(batch)]
       /\ threads' = Append(SelectSeq(threads, Alive), NewThread(batch))
  /\ UNCHANGED <<program, manager, call, trace, batchVars, chainVars, regVars, current_downloading_url,
                 message_queue>>

\* stop_download: the flag, terminate_all_processes (the registry is empty
\* here, see SpecReg), the join on the worker bounded by 3 s, and the buttons.
\* The worker may still be alive when the join gives up.
StopDownload ==
  /\ program = "gui"
  /\ stop_button = "normal"
  /\ download_stopped' = TRUE
  /\ download_button' = "normal"
  /\ stop_button' = "disabled"
  /\ threads' = [w \in DOMAIN threads |->
                   IF Alive(threads[w]) /\ threads[w].cancelled_at = -1
                   THEN [threads[w] EXCEPT !.cancelled_at = threads[w].i,
                                           !.cancelled_in = threads[w].pc]
                   ELSE threads[w]]
  /\ UNCHANGED <<program, manager, call, trace, batchVars, chainVars, regVars, current_downloading_url, message_queue,
                 video_progress, overall_progress_bar>>

\* Head of "for i, url in enumerate(urls, 1)": when the batch is exhausted the
\* summary is sent; otherwise the stop flag is read, and the next URL is
\* announced and handed to extract_info.
GuiLoopTop ==
  \E w \in DOMAIN threads :
  LET t == threads[w] IN
  /\ program = "gui"
  /\ t.pc = "top"
  /\ IF t.i = Len(t.urls)
     THEN LET s == Summary(t.results, Len(t.urls)) IN
          /\ Put(<<OverallProgressMsg(Fmt("Finalizing... %d/%d completed", <<s.successful, s.total>>)),
                   CompleteMsg(s)>>)
          /\ threads' = [threads EXCEPT ![w].pc = "done", ![w].summary = s]
          /\ UNCHANGED current_downloading_url
     ELSE IF download_stopped
          THEN /\ Put(<<ErrorMsg(Text("Download was stopped by user"))>>)
               /\ threads' = [threads EXCEPT ![w].pc = "done"]
               /\ current_downloading_url' = IF t.i = 0 THEN None ELSE current_downloading_url
          ELSE LET url == t.urls[t.i + 1] IN
               /\ current_downloading_url' = url
               /\ Put(<<OverallProgressMsg(Fmt("Processing %d/%d: Extracting info...", <<t.i + 1, Len(t.urls)>>)),
                        VideoProgressMsg(url, Text("Extracting info..."), 0, NoTitle)>>)
               /\ threads' = [threads EXCEPT ![w].i = t.i + 1, ![w].pc = "probe",
                                             ![w].available_entries = <<>>,
                                             ![w].unavailable_count = 0,
                                             ![w].j = 0,
                                             ![w].playlist_success = 0,
                                             ![w].playlist_failed = 0,
                                             ![w].processed_videos = {},
                                             ![w].final_status = NoStatus]
  /\ UNCHANGED <<program, manager, call, batchVars, chainVars, regVars, download_stopped, video_progress,
                 overall_progress_bar, download_button, stop_button>>

\* Variant for C1: a failed URL that ends the worker with an error message.
UrlFailed_EndsWorker(w, error_msg) ==
  /\ Put(<<ErrorMsg(Text("Download error"))>>)
  /\ threads' = [threads EXCEPT ![w].hooks = 0, ![w].pc = "done"]

\* Variant for C16: the except branch without the update_overall message.
UrlFailed_NoOverall(w, error_msg) ==
  LET t == threads[w]
      url == t.urls[t.i]
  IN /\ Put(<<VideoProgressMsg(url, UrlErrorStatus(error_msg), 0, NoTitle),
              LogMsg(Fmt("[%d/%d] failed", <<t.i, Len(t.urls)>>))>>)
     /\ threads' = [threads EXCEPT ![w].results = DictSet(t.results, url, FALSE),
                                   ![w].outcomes = Append(t.outcomes, FALSE),
                                   ![w].hooks = 0,
                                   ![w].pc = "top"]

\* The except branch of the URL loop, then the update_overall message.
UrlFailed(w, error_msg) ==
  LET t == threads[w]
      url == t.urls[t.i]
  IN /\ Put(<<VideoProgressMsg(url, UrlErrorStatus(error_msg), 0, NoTitle),
              LogMsg(Fmt("[%d/%d] failed", <<t.i, Len(t.urls)>>)),
              UpdateOverallMsg>>)
     /\ threads' = [threads EXCEPT ![w].results = DictSet(t.results, url, FALSE),
                                   ![w].outcomes = Append(t.outcomes, FALSE),
                                   ![w].hooks = 0,
                                   ![w].pc = "top"]

\* extract_info(url, download=False) returns or raises.  It raises an error,
\* returns None (then "'entries' in info" raises), returns the info of a
\* single video, or returns a playlist with its listing.
GuiExtractInfoReturn ==
  \E w \in DOMAIN threads :
  LET t == threads[w]
      url == t.urls[t.i]
  IN
  /\ program = "gui"
  /\ t.pc = "probe"
  /\ \/ \E error_msg \in Errors \cup {NoneTypeError} : UrlFailed(w, error_msg)
     \/ /\ ~is_playlist_url(url)
        /\ Put(<<VideoProgressMsg(url, Text("Ready to download"), 0, EngineTitle(url)),
                 VideoProgressMsg(url, Text("Downloading"), 0, NoTitle)>>)
        /\ threads' = [threads EXCEPT ![w].pc = "download", ![w].hooks = 0]
     \/ /\ is_playlist_url(url)
        /\ \E listing \in Listings :
             LET available == filter_entries(listing).available_entries
                 unavailable == filter_entries(listing).unavailable_count
             IN /\ Put(listing_log("gui.py", Len(listing), Len(available), unavailable)
                       \o <<VideoProgressMsg(url, Text("Processing playlist"), 0, EngineTitle(url))>>)
                /\ threads' = [threads EXCEPT ![w].pc = "playlist",
                                              ![w].available_entries = available,
                                              ![w].unavailable_count = unavailable,
                                              ![w].j = 0,
                                              ![w].playlist_success = 0,
                                              ![w].playlist_failed = 0,
                                              ![w].processed_videos = {}]
  /\ UNCHANGED <<program, manager, call, batchVars, chainVars, regVars, download_stopped, current_downloading_url,
                 video_progress, overall_progress_bar, download_button, stop_button>>

\* The engine calls progress_hook during run_ytdlp_with_tracking.
GuiProgressHook ==
  \E w \in DOMAIN threads :
  LET t == threads[w] IN
  /\ program = "gui"
  /\ t.pc \in {"download", "entry"}
  /\ t.hooks < MaxHooks
  /\ \E d \in HookEvents : Put(progress_hook(d, download_stopped, current_downloading_url))
  /\ threads' = [threads EXCEPT ![w].hooks = t.hooks + 1]
  /\ UNCHANGED <<program, manager, call, batchVars, chainVars, regVars, download_stopped, current_downloading_url,
                 video_progress, overall_progress_bar, download_button, stop_button>>

\* run_ytdlp_with_tracking(ydl_opts, url) of a single video returns or raises.
GuiDownloadReturn ==
  \E w \in DOMAIN threads :
  LET t == threads[w]
      url == t.urls[t.i]
  IN
  /\ program = "gui"
  /\ t.pc = "download"
  /\ \/ /\ Put(<<VideoProgressMsg(url, Text("Completed"), 100, NoTitle),
                 CurrentProgressMsg(100),
                 LogMsg(Fmt("[%d/%d] Completed", <<t.i, Len(t.urls)>>)),
                 UpdateOverallMsg>>)
        /\ threads' = [threads EXCEPT ![w].results = DictSet(t.results, url, TRUE),
                                      ![w].outcomes = Append(t.outcomes, TRUE),
                                      ![w].hooks = 0,
                                      ![w].pc = "top"]
     \/ \E error_msg \in Errors : UrlFailed(w, error_msg)
  /\ UNCHANGED <<program, manager, call, batchVars, chainVars, regVars, download_stopped, current_downloading_url,
                 video_progress, overall_progress_bar, download_button, stop_button>>

\* Head of "for j, entry in enumerate(available_entries)": the stop flag
\* breaks the loop, a video URL already processed is skipped, any other entry
\* is announced and handed to the engine.  After the loop: the final playlist
\* status, results[url], the log line and the update_overall message.
GuiPlaylistLoop ==
  \E w \in DOMAIN threads :
  LET t == threads[w]
      url == t.urls[t.i]
  IN
  /\ program = "gui"
  /\ t.pc = "playlist"
  /\ IF t.j < Len(t.available_entries) /\ ~download_stopped
     THEN LET video_url == t.available_entries[t.j + 1] IN
          IF video_url \in t.processed_videos
          THEN /\ threads' = [threads EXCEPT ![w].j = t.j + 1]
               /\ UNCHANGED <<message_queue, current_downloading_url, trace>>
          ELSE /\ Put(<<AddPlaylistVideoMsg(<<t.i, t.j + 1>>, EngineTitle(video_url), video_url),
                        VideoProgressMsg(video_url, Text("Downloading"), 0, NoTitle)>>)
               /\ current_downloading_url' = video_url
               /\ threads' = [threads EXCEPT ![w].j = t.j + 1,
                                             ![w].processed_videos = @ \cup {video_url},
                                             ![w].video_url = video_url,
                                             ![w].pc = "entry",
                                             ![w].hooks = 0]
     ELSE LET final == PlaylistFinal(t.playlist_success, Len(t.available_entries),
                                     t.unavailable_count)
          IN /\ Put(<<VideoProgressMsg(url, final.status, 100, NoTitle),
                      LogMsg(IF t.playlist_success > 0
                             THEN Fmt("Playlist completed: %d successful, %d failed",
                                      <<t.playlist_success, t.playlist_failed>>)
                             ELSE Text("Playlist failed: No videos could be downloaded")),
                      UpdateOverallMsg>>)
             /\ threads' = [threads EXCEPT ![w].results = DictSet(t.results, url, final.result),
                                           ![w].outcomes = Append(t.outcomes, final.result),
                                           ![w].final_status = final.status,
                                           ![w].pc = "top"]
             /\ UNCHANGED current_downloading_url
  /\ UNCHANGED <<program, manager, call, batchVars, chainVars, regVars, download_stopped,
                 video_progress, overall_progress_bar, download_button, stop_button>>

\* run_ytdlp_with_tracking(ydl_opts, video_url) of a playlist entry returns or
\* raises; then the playlist's own progress line.
GuiEntryReturn ==
  \E w \in DOMAIN threads :
  LET t == threads[w]
      url == t.urls[t.i]
      n == Len(t.available_entries)
      playlist_line == VideoProgressMsg(url, Fmt("Processing (%d/%d)", <<t.j, n>>),
                                        (t.j * 100) \div n, NoTitle)
  IN
  /\ program = "gui"
  /\ t.pc = "entry"
  /\ \/ /\ Put(<<VideoProgressMsg(t.video_url, Text("Completed"), 100, NoTitle), playlist_line>>)
        /\ threads' = [threads EXCEPT ![w].playlist_success = @ + 1, ![w].hooks = 0,
                                      ![w].video_url = None, ![w].pc = "playlist"]
     \/ \E error_msg \in Errors :
          /\ Put(<<VideoProgressMsg(t.video_url, EntryErrorStatus(error_msg), 0, NoTitle),
                   LogMsg(Fmt("Playlist video %d failed", <<t.j>>)),
                   playlist_line>>)
          /\ threads' = [threads EXCEPT ![w].playlist_failed = @ + 1, ![w].hooks = 0,
                                        ![w].video_url = None, ![w].pc = "playlist"]
  /\ UNCHANGED <<program, manager, call, batchVars, chainVars, regVars, download_stopped, current_downloading_url,
                 video_progress, overall_progress_bar, download_button, stop_button>>

\* update_messages: one message taken from the queue and dispatched.
\* Variant for C14: the newest message is taken first.
get_nowait_Newest(q) == [item |-> Last(q), rest |-> SubSeq(q, 1, Len(q) - 1)]

\* message_queue.get_nowait() on a queue that is not empty: the oldest
\* message, and the queue without it.
get_nowait(q) == [item |-> Head(q), rest |-> Tail(q)]

HandleMessage ==
  /\ program = "gui"
  /\ message_queue # <<>>
  /\ LET m == get_nowait(message_queue).item IN
       /\ message_queue' = get_nowait(message_queue).rest
       /\ video_progress' =
            IF m.type = "video_progress"
            THEN update_video_progress(video_progress, m.url, m.status, m.progress, m.title)
            ELSE IF m.type = "add_playlist_video"
                 THEN add_video_to_progress(video_progress, m.index, m.title, m.url)
                 ELSE video_progress
       /\ overall_progress_bar' =
            IF m.type = "update_overall"
            THEN update_overall_progress(video_progress, overall_progress_bar)
            ELSE overall_progress_bar
       /\ IF m.type \in {"complete", "error"}
          THEN download_button' = "normal" /\ stop_button' = "disabled"
          ELSE UNCHANGED <<download_button, stop_button>>
       /\ trace' = IF trace.on THEN [trace EXCEPT !.handled = Append(@, m)] ELSE trace
  /\ UNCHANGED <<program, manager, call, batchVars, chainVars, regVars, download_stopped, current_downloading_url,
                 threads>>


\* ---- gui.py: the registry of tracked subprocesses
\* list.remove(x): the first occurrence of x leaves the list
Remove(s, x) ==
  LET k == CHOOSE h \in DOMAIN s : s[h] = x /\ \A g \in 1..(h - 1) : s[g] # x
  IN [h \in 1..(Len(s) - 1) |-> IF h < k THEN s[h] ELSE s[h + 1]]

\* tracked_subprocess_run, on the worker thread: Popen, then the handle is
\* appended to running_processes.
TrackedPopen ==
  /\ program = "gui"
  /\ Cardinality(tracked) < MaxRuns
  /\ \E p \in Pids :
       /\ processes[p] = "unborn"
       /\ \A q \in Pids : q < p => processes[q] # "unborn"
       /\ processes' = [processes EXCEPT ![p] = "running"]
       /\ running_processes' = Append(running_processes, p)
       /\ tracked' = tracked \cup {p}
  /\ UNCHANGED <<program, manager, call, trace, batchVars, chainVars, guiVars, term>>

\* A process ends, by itself or after a signal.
ProcessExits ==
  /\ program = "gui"
  /\ \E p \in Pids :
       /\ processes[p] = "running"
       /\ processes' = [processes EXCEPT ![p] = "exited"]
  /\ UNCHANGED <<program, manager, call, trace, batchVars, chainVars, guiVars, running_processes, tracked, term>>

\* process.communicate() returns; the handle is removed if it is still listed.
TrackedCommunicateReturn ==
  /\ program = "gui"
  /\ \E p \in tracked :
       /\ processes[p] = "exited"
       /\ running_processes' = IF p \in Range(running_processes)
                               THEN Remove(running_processes, p)
                               ELSE running_processes
       /\ tracked' = tracked \ {p}
  /\ UNCHANGED <<program, manager, call, trace, batchVars, chainVars, guiVars, processes, term>>

\* Variant for C29: the test of poll() always passes
StillRunning_Always(proc) == TRUE
\* proc.poll() is None
StillRunning(proc) == processes[proc] = "running"
\* What one round of a loop of terminate_all_processes did with its handle:
\* alive tells whether the process was running then (history).
Round(loop, proc, did) ==
  [loop |-> loop, proc |-> proc, did |-> did, alive |-> processes[proc] = "running"]

\* terminate_all_processes is entered: the first loop runs over a copy.
TerminateAllBegin ==
  /\ program = "gui"
  /\ term.pc \in {"idle", "returned"}
  /\ term' = [NoTerm EXCEPT !.pc = "terminate", !.copy = running_processes,
                            !.first = running_processes]
  /\ UNCHANGED <<program, manager, call, trace, batchVars, chainVars, guiVars, running_processes, processes, tracked>>

\* One round of "for proc in self.running_processes[:]": a process that has
\* ended is passed over; otherwise proc.terminate() is called, and the signal
\* ends the process, or is ignored by it, or the call raises and the except
\* clause of the round prints the error.  After the loop, sleep(1), then the
\* second loop takes a fresh copy.
TerminateLoop ==
  /\ program = "gui"
  /\ term.pc = "terminate"
  /\ IF term.k < Len(term.copy)
     THEN LET proc == term.copy[term.k + 1] IN
          IF StillRunning(proc)
          THEN \/ /\ term' = [term EXCEPT !.k = term.k + 1,
                                          !.rounds = Append(@, Round("terminate", proc, "signal"))]
                  /\ \/ UNCHANGED processes
                     \/ processes' = [processes EXCEPT ![proc] = "exited"]
               \/ /\ term' = [term EXCEPT !.k = term.k + 1,
                                          !.rounds = Append(@, Round("terminate", proc, "error"))]
                  /\ UNCHANGED processes
          ELSE /\ term' = [term EXCEPT !.k = term.k + 1,
                                       !.rounds = Append(@, Round("terminate", proc, "passed"))]
               /\ UNCHANGED processes
     ELSE /\ term' = [term EXCEPT !.pc = "kill", !.copy = running_processes, !.k = 0,
                                  !.second = running_processes]
          /\ UNCHANGED processes
  /\ UNCHANGED <<program, manager, call, trace, batchVars, chainVars, guiVars, running_processes, tracked>>

\* One round of the second loop: a process that has ended is passed over;
\* otherwise proc.kill() and proc.wait(timeout=1), which end the process or
\* raise into the except clause of the round.  After the loop,
\* self.running_processes.clear().
KillLoop ==
  /\ program = "gui"
  /\ term.pc = "kill"
  /\ IF term.k < Len(term.copy)
     THEN LET proc == term.copy[term.k + 1] IN
          /\ UNCHANGED running_processes
          /\ IF StillRunning(proc)
             THEN \/ /\ term' = [term EXCEPT !.k = term.k + 1,
                                             !.rounds = Append(@, Round("kill", proc, "signal"))]
                     /\ processes' = [processes EXCEPT ![proc] = "exited"]
                  \/ /\ term' = [term EXCEPT !.k = term.k + 1,
                                             !.rounds = Append(@, Round("kill", proc, "error"))]
                     /\ UNCHANGED processes
             ELSE /\ term' = [term EXCEPT !.k = term.k + 1,
                                          !.rounds = Append(@, Round("kill", proc, "passed"))]
                  /\ UNCHANGED processes
     ELSE /\ running_processes' = <<>>
          /\ term' = [term EXCEPT !.pc = "sweep", !.copy = <<>>, !.k = 0]
          /\ UNCHANGED processes
  /\ UNCHANGED <<program, manager, call, trace, batchVars, chainVars, guiVars, tracked>>

\* The psutil sweep over the yt-dlp processes of the machine, then the return.
TerminateAllReturn ==
  /\ program = "gui"
  /\ term.pc = "sweep"
  /\ term' = [term EXCEPT !.pc = "returned"]
  /\ UNCHANGED <<program, manager, call, trace, batchVars, chainVars, guiVars, running_processes, processes, tracked>>

\* The window of gui.py with no batch started.
InitGuiWindow ==
  /\ program = "gui"
  /\ urls = <<>>
  /\ i = 0
  /\ results = EmptyDict
  /\ outcomes = <<>>
  /\ summary = NoSummary
  /\ pc = "window"
  /\ InitChain
  /\ InitWindow
  /\ call = NoCall

InitGui ==
  /\ InitGuiWindow
  /\ trace = TraceOff

\* The same window, with the history of the event channel kept.
InitTrace ==
  /\ InitGuiWindow
  /\ trace = TraceOn

NextGui ==
  \/ StartDownload
  \/ StopDownload
  \/ GuiLoopTop
  \/ GuiExtractInfoReturn
  \/ GuiProgressHook
  \/ GuiDownloadReturn
  \/ GuiPlaylistLoop
  \/ GuiEntryReturn
  \/ HandleMessage

SpecGui == InitGui /\ [][NextGui]_vars

\* The window with the history of its first MaxTrace events.
SpecTrace == InitTrace /\ [][NextGui]_vars

\* The registry of subprocesses of gui.py, on its own.
NextReg ==
  \/ TrackedPopen
  \/ ProcessExits
  \/ TrackedCommunicateReturn
  \/ TerminateAllBegin
  \/ TerminateLoop
  \/ KillLoop
  \/ TerminateAllReturn

SpecReg == InitGui /\ [][NextReg]_vars

\* ============================================= functions applied on their own
\* The tracker functions, the progress hooks, the classifier and the checks of
\* the URL text at each front end, each applied to inputs of its own; call
\* records the arguments, the tracker before the call and what came back.
\* The functions that read no state are applied once, to every input; the
\* tracker functions are applied one after the other.

\* ---- the checks of the URL text
\* line.strip()
StrippedOf == [line \in Strings \ {None, NotAStr} |-> Bind(Bind(Chars(line), strip), Str)]
Stripped(line) == StrippedOf[line]
\* 'youtube.com' in url or 'youtu.be' in url
IsYouTubeTextOf ==
  [url \in Strings \ {None, NotAStr} |->
     \E u \in {Chars(url)} : Contains(u, <<"youtube.com">>) \/ Contains(u, <<"youtu.be">>)]
IsYouTubeText(url) == IsYouTubeTextOf[url]
\* url.startswith('#')
IsComment(url) == \E u \in {Chars(url)} : IF u = <<>> THEN FALSE ELSE u[1] = "#"

\* batch_download.read_urls_from_file over the lines of the file: the list it
\* returns and the warnings it prints.
read_urls_from_file(lines) ==
  LET R[k \in 0..Len(lines)] ==
        IF k = 0 THEN [urls |-> <<>>, printed |-> <<>>]
        ELSE LET url == Stripped(lines[k]) IN
             IF url = "" THEN R[k - 1]
             ELSE IF IsComment(url) THEN R[k - 1]
             ELSE IF IsYouTubeText(url) THEN [R[k - 1] EXCEPT !.urls = Append(@, url)]
             ELSE [R[k - 1] EXCEPT !.printed = Append(@, [line_num |-> k, url |-> url])]
  IN R[Len(lines)]

\* [url.strip() for url in urls_text.split('\n') if url.strip()]
TextUrls(lines) ==
  SelectSeq([k \in DOMAIN lines |-> Stripped(lines[k])], LAMBDA u : u # "")

\* Variant for C20: start_download without the test of the URL text.
start_download_check_NoTest(lines) ==
  [started |-> TextUrls(lines) # <<>>, urls |-> TextUrls(lines), invalid |-> 0]

\* start_download up to the start of the worker, over the lines of the text
\* box: whether the worker is started, the batch it is handed, and the number
\* of invalid URLs the warning box shows (0 when no such box is shown).
start_download_check(lines) ==
  LET invalid_urls == SelectSeq(TextUrls(lines), LAMBDA u : ~IsYouTubeText(u))
  IN IF TextUrls(lines) = <<>> THEN [started |-> FALSE, urls |-> <<>>, invalid |-> 0]
     ELSE IF invalid_urls # <<>>
          THEN [started |-> FALSE, urls |-> <<>>, invalid |-> Len(invalid_urls)]
          ELSE [started |-> TRUE, urls |-> TextUrls(lines), invalid |-> 0]

\* The input loop of main over the lines typed: it ends at 'quit', at an empty
\* line once a URL was taken, or at the end of the input; every other line is
\* taken or answered with "Invalid YouTube URL".
main_input(typed) ==
  LET M[k \in 0..Len(typed)] ==
        IF k = 0 THEN [urls |-> <<>>, printed |-> <<>>, done |-> FALSE]
        ELSE LET url == Stripped(typed[k]) IN
             IF M[k - 1].done THEN M[k - 1]
             ELSE IF url = "quit" THEN [M[k - 1] EXCEPT !.done = TRUE]
             ELSE IF url = ""
                  THEN [M[k - 1] EXCEPT !.done = (M[k - 1].urls # <<>>)]
                  ELSE IF IsYouTubeText(url)
                       THEN [M[k - 1] EXCEPT !.urls = Append(@, url)]
                       ELSE [M[k - 1] EXCEPT !.printed = Append(@, [line_num |-> k, url |-> url])]
  IN M[Len(typed)]

\* ---- sanitize_filename
\* A file name is a sequence of runs: n copies of the character c, n >= 1.
\* The characters of illegal_chars = r'[<>:"/\\|?*]'
IllegalChars == {"<", ">", ":", "\"", "/", "\\", "|", "?", "*"}
\* the longest name sanitize_filename returns
NameLimit == 200
RECURSIVE NameLen(_)
NameLen(s) == IF s = <<>> THEN 0 ELSE Head(s).n + NameLen(Tail(s))
\* re.sub(illegal_chars, '_', filename)
sub_illegal(s) == [k \in DOMAIN s |-> IF s[k].c \in IllegalChars THEN [c |-> "_", n |-> s[k].n] ELSE s[k]]
\* filename.strip(chars)
RECURSIVE lstrip_chars(_, _)
lstrip_chars(s, chars) ==
  IF s = <<>> THEN <<>>
  ELSE IF Head(s).c \in chars THEN lstrip_chars(Tail(s), chars) ELSE s
RECURSIVE rstrip_chars(_, _)
rstrip_chars(s, chars) ==
  IF s = <<>> THEN <<>>
  ELSE IF Last(s).c \in chars THEN rstrip_chars(SubSeq(s, 1, Len(s) - 1), chars) ELSE s
strip_chars(s, chars) == rstrip_chars(lstrip_chars(s, chars), chars)
\* filename[:n]
RECURSIVE Prefix(_, _)
Prefix(s, n) ==
  IF s = <<>> \/ n = 0 THEN <<>>
  ELSE IF Head(s).n <= n THEN <<Head(s)>> \o Prefix(Tail(s), n - Head(s).n)
       ELSE <<[c |-> Head(s).c, n |-> n]>>

\* Variant for C24: sanitize_filename without the limit on the length.
sanitize_filename_NoLimit(filename) == strip_chars(sub_illegal(filename), {" ", "."})

sanitize_filename(filename) ==
  Bind(strip_chars(sub_illegal(filename), {" ", "."}),
       LAMBDA stripped : IF NameLen(stripped) > NameLimit THEN Prefix(stripped, NameLimit)
                         ELSE stripped)

\* ---- the inputs
\* URLs handed to the tracker: the spellings of two videos, and a URL with no
\* video id.
TrackUrls == {"v1", "https://www.youtube.com/watch?v=A&t=1", "https://youtu.be/A",
              "https://youtu.be/A?t=1", "c1", "https://youtu.be/B", "https://vimeo.com/123456"}
\* Values handed to is_playlist_url.
ClassifyInputs == Strings \ {"quit", "  ", "# https://youtu.be/A", " https://youtu.be/A "}
\* Lines of a URL file, of the text box, or typed at the prompt.
Lines == {"v1", "pl", " https://youtu.be/A ", "https://vimeo.com/123456", "not_a_url",
          "https://www.notyoutube.com/watch?v=test", "", "  ", "# https://youtu.be/A", "quit"}
Texts == SeqsUpTo(Lines, MaxLines)
\* Titles handed to sanitize_filename: runs of a letter, of a blank, of a dot
\* and of every illegal character, one character long or as long as the limit.
NameChars == {"T", " ", "."} \cup IllegalChars
NameRuns == [c : NameChars, n : {1, NameLimit}]
Names == SeqsUpTo(NameRuns, MaxPieces)
UnitHookEvents ==
  [status : {"downloading", "finished"}, filename : Filenames \cup MoreFilenames, percent : Percents]
Implementations == {"gui.py", "gui/"}

\* update_messages on the messages of one hook call: each video_progress
\* message goes to update_video_progress.
RECURSIVE Deliver(_, _, _)
Deliver(impl, vp, msgs) ==
  IF msgs = <<>> THEN vp
  ELSE LET m == Head(msgs)
           next == IF m.type # "video_progress" THEN vp
                   ELSE IF impl = "gui.py"
                        THEN update_video_progress(vp, m.url, m.status, m.progress, m.title)
                        ELSE tracker_update_video_progress(vp, m.url, m.status, m.progress, m.title)
       IN Deliver(impl, next, Tail(msgs))

InitUnit ==
  /\ program = "unit"
  /\ urls = <<>>
  /\ i = 0
  /\ results = EmptyDict
  /\ outcomes = <<>>
  /\ summary = NoSummary
  /\ pc = "unit"
  /\ InitChain
  /\ InitWindow
  /\ call = NoCall
  /\ trace = TraceOff

UnitFrame ==
  UNCHANGED <<program, manager, batchVars, chainVars, regVars, trace, download_stopped,
              current_downloading_url, message_queue, overall_progress_bar,
              download_button, stop_button, threads>>

\* add_video_to_progress(index, title, url): the tracker is filled first, and
\* a URL already tracked is added again at any time
UnitAddVideo ==
  /\ program = "unit"
  /\ \E url \in TrackUrls :
       LET index == <<Len(video_progress) + 1>>
           title == IF KeyIndex(video_progress, url) = 0 THEN Text("Video") ELSE Text("Other title")
       IN /\ IF KeyIndex(video_progress, url) = 0
             THEN Len(video_progress) < MaxTracked /\ call.op \in {"none", "add_video_to_progress"}
             ELSE TRUE
          /\ video_progress' = add_video_to_progress(video_progress, index, title, url)
          /\ call' = [op |-> "add_video_to_progress", url |-> url, title |-> title,
                      before |-> video_progress,
                      ret |-> add_video_to_progress_ret(video_progress, index, title, url)]
  /\ UnitFrame

\* The arguments of the update_video_progress calls: a status with its
\* progress, a title alone, and nothing at all.
UpdateArgs ==
  {[status |-> Text("Downloading"), progress |-> 50, title |-> NoTitle],
   [status |-> NoStatus, progress |-> NoProgress, title |-> Text("Real title")],
   [status |-> NoStatus, progress |-> NoProgress, title |-> NoTitle]}

\* update_video_progress(url, status, progress, title=title), in gui.py and
\* in gui/progress_tracker.py, on a tracker just filled
UnitUpdateVideo ==
  /\ program = "unit"
  /\ call.op = "add_video_to_progress"
  /\ \A k \in DOMAIN video_progress : video_progress[k].status = Text("Pending")
  /\ \E impl \in Implementations, url \in TrackUrls, a \in UpdateArgs :
       /\ video_progress' =
            IF impl = "gui.py"
            THEN update_video_progress(video_progress, url, a.status, a.progress, a.title)
            ELSE tracker_update_video_progress(video_progress, url, a.status, a.progress, a.title)
       /\ call' = [op |-> "update_video_progress", impl |-> impl, url |-> url,
                   status |-> a.status, progress |-> a.progress, title |-> a.title,
                   before |-> video_progress]
  /\ UnitFrame

\* progress_hook(d) while the only tracked URL is downloading, and the
\* dispatch of the messages it put
UnitProgressHook ==
  /\ program = "unit"
  /\ Len(video_progress) = 1
  /\ video_progress[1].status = Text("Downloading")
  /\ \E impl \in Implementations, d \in UnitHookEvents :
       LET cur == video_progress[1].url
           msgs == IF impl = "gui.py" THEN progress_hook(d, FALSE, cur)
                   ELSE manager_progress_hook(d, FALSE, cur)
       IN /\ video_progress' = Deliver(impl, video_progress, msgs)
          /\ call' = [op |-> "progress_hook", impl |-> impl, d |-> d, cur |-> cur,
                      msgs |-> msgs, before |-> video_progress]
  /\ UnitFrame

\* progress_hook(d) called by the engine, with download_stopped set or not and
\* with or without a current URL
UnitHookCall ==
  /\ program = "unit"
  /\ call = NoCall
  /\ \E impl \in Implementations, d \in UnitHookEvents, stopped \in BOOLEAN,
        cur \in {None, "v1"} :
       call' = [op |-> "hook", impl |-> impl, d |-> d, stopped |-> stopped, cur |-> cur,
                msgs |-> IF impl = "gui.py" THEN progress_hook(d, stopped, cur)
                         ELSE manager_progress_hook(d, stopped, cur),
                calls |-> progress_hook_calls(impl, stopped)]
  /\ UNCHANGED video_progress
  /\ UnitFrame

\* str(e) of an exception, classified as the URL loop and as the playlist
\* loop classify it
UnitClassifyError ==
  /\ program = "unit"
  /\ call = NoCall
  /\ \E error_msg \in ErrorTexts :
       call' = [op |-> "classify_error", error_msg |-> error_msg,
                standalone |-> UrlErrorStatus(error_msg),
                child |-> EntryErrorStatus(error_msg)]
  /\ UNCHANGED video_progress
  /\ UnitFrame

\* The listing of a playlist is filtered and logged, by gui.py or by gui/
UnitFilterEntries ==
  /\ program = "unit"
  /\ call = NoCall
  /\ \E impl \in Implementations, listing \in Listings :
       LET r == filter_entries(listing)
           unavailable_count == IF impl = "gui.py" THEN r.unavailable_count
                                ELSE Len(listing) - Len(r.available_entries)
       IN call' = [op |-> "filter_entries", impl |-> impl, entries |-> listing,
                   available_entries |-> r.available_entries,
                   unavailable_count |-> unavailable_count,
                   log |-> listing_log(impl, Len(listing), Len(r.available_entries),
                                       unavailable_count)]
  /\ UNCHANGED video_progress
  /\ UnitFrame

\* The videos of a listing get the numbers of their files, by gui.py or by
\* enhanced_downloader.py
UnitNumberChildren ==
  /\ program = "unit"
  /\ call = NoCall
  /\ \E impl \in {"gui.py", "enh"}, listing \in Listings :
       call' = [op |-> "numbered_children", impl |-> impl, entries |-> listing,
                children |-> numbered_children(impl, listing)]
  /\ UNCHANGED video_progress
  /\ UnitFrame

\* is_playlist_url(url)
UnitClassify ==
  /\ program = "unit"
  /\ call = NoCall
  /\ \E url \in ClassifyInputs :
       call' = [op |-> "is_playlist_url", url |-> url,
                raised |-> IsPlaylistUrl[url].raised,
                ret |-> IsPlaylistUrl[url].value]
  /\ UNCHANGED video_progress
  /\ UnitFrame

\* read_urls_from_file on a file of up to MaxLines lines
UnitReadUrls ==
  /\ program = "unit"
  /\ call = NoCall
  /\ \E lines \in Texts :
       call' = [op |-> "read_urls_from_file", lines |-> lines,
                started |-> read_urls_from_file(lines).urls # <<>>,
                urls |-> read_urls_from_file(lines).urls,
                printed |-> read_urls_from_file(lines).printed]
  /\ UNCHANGED video_progress
  /\ UnitFrame

\* start_download on a text box of up to MaxLines lines
UnitStartDownload ==
  /\ program = "unit"
  /\ call = NoCall
  /\ \E lines \in Texts :
       call' = [op |-> "start_download", lines |-> lines,
                started |-> start_download_check(lines).started,
                urls |-> start_download_check(lines).urls,
                invalid |-> start_download_check(lines).invalid]
  /\ UNCHANGED video_progress
  /\ UnitFrame

\* main's input loop on up to MaxLines lines typed
UnitMainInput ==
  /\ program = "unit"
  /\ call = NoCall
  /\ \E typed \in Texts :
       call' = [op |-> "main", lines |-> typed,
                started |-> main_input(typed).urls # <<>>,
                urls |-> main_input(typed).urls,
                printed |-> main_input(typed).printed]
  /\ UNCHANGED video_progress
  /\ UnitFrame

\* download_single_video(url) with an engine whose metadata query gives the
\* availability or raises, and whose download returns or raises
UnitDownloadSingleVideo ==
  /\ program = "unit"
  /\ call = NoCall
  /\ \E probe \in Availabilities \cup {"raise"}, dl \in {"ok", "raise"} :
       call' = [op |-> "download_single_video", probe |-> probe, dl |-> dl,
                ret |-> download_single_video(probe, dl)]
  /\ UNCHANGED video_progress
  /\ UnitFrame

\* _extract_video_id(url), and _extract_video_id of its result
UnitExtractVideoId ==
  /\ program = "unit"
  /\ call = NoCall
  /\ \E url \in TrackUrls \cup {"", None} :
       call' = [op |-> "extract_video_id", url |-> url,
                ret |-> extract_video_id(url),
                again |-> extract_video_id_again(extract_video_id(url))]
  /\ UNCHANGED video_progress
  /\ UnitFrame

\* sanitize_filename(filename)
UnitSanitizeFilename ==
  /\ program = "unit"
  /\ call = NoCall
  /\ \E filename \in Names :
       call' = [op |-> "sanitize_filename", filename |-> filename,
                ret |-> sanitize_filename(filename)]
  /\ UNCHANGED video_progress
  /\ UnitFrame

NextUnit ==
  \/ UnitAddVideo
  \/ UnitUpdateVideo
  \/ UnitProgressHook
  \/ UnitClassify
  \/ UnitReadUrls
  \/ UnitStartDownload
  \/ UnitMainInput
  \/ UnitDownloadSingleVideo
  \/ UnitExtractVideoId
  \/ UnitSanitizeFilename
  \/ UnitHookCall
  \/ UnitClassifyError
  \/ UnitFilterEntries
  \/ UnitNumberChildren

SpecUnit == InitUnit /\ [][NextUnit]_vars

\* ------------------------------------------------------------ the gui package
\* gui/main_window.py, gui/download_manager.py and gui/progress_tracker.py:
\* the window, the worker thread of the DownloadManager and update_messages.
\* The worker calls self.downloader.set_format and self.downloader.get_info.
\* The class YouTubeDownloader has neither method, so with the downloader of
\* the repository (DownloaderMethods) the worker ends in its outer except
\* clause before the first URL.  With a downloader that answers the two
\* calls (StubMethods) the rest of the worker runs as it is written.
\* The tracker is entered by the worker thread itself (clear_video_progress,
\* add_video_to_progress) and by update_messages on the thread of the window
\* (update_video_progress, update_overall_progress); no lock is taken, so a
\* call is two steps here, its entry and its return.
DownloaderMethods ==
  {"configure_subtitles", "is_playlist_url", "get_playlist_info", "sanitize_filename",
   "download_single_video", "download_playlist", "download_url", "download_multiple_urls"}
StubMethods == DownloaderMethods \cup {"set_format", "get_info"}

ConsumerIdle == [pc |-> "idle"]
\* the worker thread is inside a method of the tracker
WorkerInTracker(t) == t.pc \in {"clearing", "adding"}
\* update_messages is inside a method of the tracker
ConsumerInTracker == manager.consumer.pc = "update"

\* The stores of update_video_progress on the entry it has found.
tracker_store(vp, k, status, progress, title) ==
  [vp EXCEPT ![k] =
     [@ EXCEPT !.status = IF status # NoStatus THEN status ELSE @,
               !.progress = IF progress # NoProgress THEN progress ELSE @,
               !.title = IF title # NoTitle THEN title ELSE @]]

InitManager ==
  /\ program = "mgr"
  /\ urls = <<>>
  /\ i = 0
  /\ results = EmptyDict
  /\ outcomes = <<>>
  /\ summary = NoSummary
  /\ pc = "gui"
  /\ InitChain
  /\ download_stopped = FALSE
  /\ current_downloading_url = None
  /\ message_queue = <<>>
  /\ video_progress = <<>>
  /\ overall_progress_bar = 0
  /\ download_button = "normal"
  /\ stop_button = "disabled"
  /\ threads = <<>>
  /\ running_processes = <<>>
  /\ processes = [p \in Pids |-> "unborn"]
  /\ tracked = {}
  /\ term = NoTerm
  /\ call = NoCall
  /\ trace = TraceOff
  /\ manager \in {[methods |-> m, consumer |-> ConsumerIdle] : m \in {DownloaderMethods, StubMethods}}

MgrFrame == UNCHANGED <<program, call, trace, batchVars, chainVars, regVars>>

\* main_window.start_download past the validation, and
\* DownloadManager.start_download, which clears download_stopped and starts
\* a thread whether or not the thread of the batch before has ended (the
\* join of stop_download gives up after its timeout).
MgrStartDownload ==
  /\ program = "mgr"
  /\ download_button = "normal"
  /\ manager.consumer.pc = "idle"
  /\ Len(SelectSeq(threads, Alive)) < MaxRuns
  /\ \E batch \in Batches :
       /\ \A k \in DOMAIN threads : Alive(threads[k]) => Overlappable(batch, threads[k].urls)
       /\ download_button' = "disabled"
       /\ stop_button' = "normal"
       /\ download_stopped' = FALSE
       /\ overall_progress_bar' = 0
       /\ LET Populate[k \in 0..Len(batch)] ==
                IF k = 0 THEN clear_video_progress
                ELSE add_video_to_progress(Populate[k - 1], <<k>>, Fmt("Video %d", <<k>>), batch[k])
          IN video_progress' = Populate[Len(batch)]
       /\ threads' = Append(SelectSeq(threads, Alive), [NewThread(batch) EXCEPT !.pc = "setup"])
  /\ UNCHANGED <<manager, current_downloading_url, message_queue>>
  /\ MgrFrame

\* main_window.stop_download and DownloadManager.stop_download: the flag and
\* the buttons; the join gives up after its timeout.
MgrStopDownload ==
  /\ program = "mgr"
  /\ stop_button = "normal"
  /\ manager.consumer.pc = "idle"
  /\ download_stopped' = TRUE
  /\ download_button' = "normal"
  /\ stop_button' = "disabled"
  /\ threads' = [w \in DOMAIN threads |->
                   IF Alive(threads[w]) /\ threads[w].cancelled_at = -1
                   THEN [threads[w] EXCEPT !.cancelled_at = threads[w].i,
                                           !.cancelled_in = threads[w].pc,
                                           !.cancelled_child =
                                              IF threads[w].pc = "download" THEN threads[w].j ELSE 0]
                   ELSE threads[w]]
  /\ UNCHANGED <<manager, current_downloading_url, message_queue, video_progress,
                 overall_progress_bar>>
  /\ MgrFrame

\* _download_worker up to the URL loop: self.downloader.set_format raises
\* AttributeError when the downloader has no such method.
MgrSetup ==
  \E w \in DOMAIN threads :
  /\ program = "mgr"
  /\ threads[w].pc = "setup"
  /\ IF "set_format" \in manager.methods
     THEN /\ threads' = [threads EXCEPT ![w].pc = "top"]
          /\ UNCHANGED <<message_queue, trace>>
     ELSE /\ Put(<<ErrorMsg(Text("Download error: no attribute 'set_format'"))>>)
          /\ threads' = [threads EXCEPT ![w].pc = "done"]
  /\ UNCHANGED <<program, call, batchVars, chainVars, regVars, manager, download_stopped,
                 current_downloading_url, video_progress, overall_progress_bar,
                 download_button, stop_button>>

\* The messages and the bookkeeping after _download_with_progress returned.
MgrResult(w, result) ==
  LET t == threads[w]
      url == t.urls[t.i]
  IN /\ Put(<<LogMsg(IF result THEN Text("Successfully downloaded") ELSE Text("Failed to download")),
              VideoProgressMsg(url, IF result THEN Text("Completed") ELSE Text("Failed"),
                               IF result THEN 100 ELSE 0, NoTitle),
              OverallProgressMsg(Fmt("Completed %d/%d downloads", <<t.i, Len(t.urls)>>))>>)
     /\ threads' = [threads EXCEPT ![w].results = DictSet(t.results, url, result),
                                   ![w].outcomes = Append(t.outcomes, result),
                                   ![w].hooks = 0,
                                   ![w].pc = "top"]

\* The head of the URL loop, and the messages after it.
MgrLoopTop ==
  \E w \in DOMAIN threads :
  LET t == threads[w] IN
  /\ program = "mgr"
  /\ t.pc = "top"
  /\ IF t.i = Len(t.urls) \/ download_stopped
     THEN LET s == Summary(t.results, Len(t.urls)) IN
          /\ Put(<<OverallProgressMsg(Fmt("Finalizing... %d/%d completed", <<s.successful, s.total>>)),
                   CompleteMsg(s)>>)
          /\ threads' = [threads EXCEPT ![w].pc = "done", ![w].summary = s]
          /\ UNCHANGED current_downloading_url
     ELSE /\ current_downloading_url' = t.urls[t.i + 1]
          /\ Put(<<CurrentProgressMsg(0),
                   LogMsg(Fmt("Starting download %d/%d", <<t.i + 1, Len(t.urls)>>))>>)
          /\ threads' = [threads EXCEPT ![w].i = t.i + 1, ![w].pc = "get_info",
                                        ![w].available_entries = <<>>,
                                        ![w].unavailable_count = 0,
                                        ![w].j = 0]
  /\ UNCHANGED <<program, call, batchVars, chainVars, regVars, manager, download_stopped,
                 video_progress, overall_progress_bar, download_button, stop_button>>

\* _download_with_progress: self.downloader.get_info(url) gives nothing or
\* raises (False), or gives the info of the URL.
MgrGetInfo ==
  \E w \in DOMAIN threads :
  LET t == threads[w] IN
  /\ program = "mgr"
  /\ t.pc = "get_info"
  /\ \/ MgrResult(w, FALSE)
     \/ /\ "get_info" \in manager.methods
        /\ threads' = [threads EXCEPT ![w].pc = IF is_playlist_url(t.urls[t.i])
                                                THEN "playlist_info" ELSE "download"]
        /\ UNCHANGED <<message_queue, trace>>
  /\ UNCHANGED <<program, call, batchVars, chainVars, regVars, manager, download_stopped,
                 current_downloading_url, video_progress, overall_progress_bar,
                 download_button, stop_button>>

\* get_playlist_info(url): nothing (False), or the listing, whose None
\* entries are counted and logged.
MgrPlaylistInfo ==
  \E w \in DOMAIN threads :
  LET t == threads[w] IN
  /\ program = "mgr"
  /\ t.pc = "playlist_info"
  /\ \E info \in PlaylistInfos :
       IF ~info.found
       THEN /\ Put(<<LogMsg(Text("Could not get playlist information"))>>)
            /\ threads' = [threads EXCEPT ![w].results = DictSet(t.results, t.urls[t.i], FALSE),
                                          ![w].pc = "failed"]
       ELSE LET available == filter_entries(info.entries).available_entries
                unavailable == Len(info.entries) - Len(available)
            IN /\ Put(listing_log("gui/", Len(info.entries), Len(available), unavailable))
               /\ threads' = [threads EXCEPT ![w].available_entries = available,
                                             ![w].unavailable_count = unavailable,
                                             ![w].pc = "clear"]
  /\ UNCHANGED <<program, call, batchVars, chainVars, regVars, manager, download_stopped,
                 current_downloading_url, video_progress, overall_progress_bar,
                 download_button, stop_button>>

\* _download_with_progress has returned False after its log line.
MgrFailed ==
  \E w \in DOMAIN threads :
  /\ program = "mgr"
  /\ threads[w].pc = "failed"
  /\ MgrResult(w, FALSE)
  /\ UNCHANGED <<program, call, batchVars, chainVars, regVars, manager, download_stopped,
                 current_downloading_url, video_progress, overall_progress_bar,
                 download_button, stop_button>>

\* The worker enters a method of the tracker: clear_video_progress, or
\* add_video_to_progress for the next available entry; after the last entry
\* it logs the number of videos and goes on to the download.
MgrTrackerEnter ==
  \E w \in DOMAIN threads :
  LET t == threads[w] IN
  /\ program = "mgr"
  /\ t.pc \in {"clear", "add"}
  /\ IF t.pc = "clear"
     THEN /\ threads' = [threads EXCEPT ![w].pc = "clearing"]
          /\ UNCHANGED <<message_queue, trace>>
     ELSE IF t.j < Len(t.available_entries)
          THEN /\ threads' = [threads EXCEPT ![w].pc = "adding", ![w].j = t.j + 1]
               /\ UNCHANGED <<message_queue, trace>>
          ELSE /\ Put(<<LogMsg(Fmt("Playlist: %d videos ready for download",
                                   <<Len(t.available_entries)>>))>>)
               /\ threads' = [threads EXCEPT ![w].pc = "download", ![w].j = 0]
  /\ UNCHANGED <<program, call, batchVars, chainVars, regVars, manager, download_stopped,
                 current_downloading_url, video_progress, overall_progress_bar,
                 download_button, stop_button>>

\* The method of the tracker returns to the worker.  clear_video_progress
\* binds self.video_progress to a new dict: an update_video_progress that has
\* found its entry before goes on with the entry of the old dict.
MgrTrackerReturn ==
  \E w \in DOMAIN threads :
  LET t == threads[w] IN
  /\ program = "mgr"
  /\ WorkerInTracker(t)
  /\ IF t.pc = "clearing"
     THEN /\ video_progress' = clear_video_progress
          /\ manager' = IF ConsumerInTracker
                        THEN [manager EXCEPT !.consumer.stale = TRUE]
                        ELSE manager
     ELSE /\ video_progress' = add_video_to_progress(video_progress, <<t.j>>,
                                                     EngineTitle(t.available_entries[t.j]),
                                                     t.available_entries[t.j])
          /\ UNCHANGED manager
  /\ threads' = [threads EXCEPT ![w].pc = "add"]
  /\ UNCHANGED <<program, call, trace, batchVars, chainVars, regVars, download_stopped,
                 current_downloading_url, message_queue, overall_progress_bar,
                 download_button, stop_button>>

\* The engine calls progress_hook during ydl.download([url]).
MgrProgressHook ==
  \E w \in DOMAIN threads :
  LET t == threads[w] IN
  /\ program = "mgr"
  /\ t.pc = "download"
  /\ t.hooks < MaxHooks
  /\ \E d \in HookEvents :
       Put(manager_progress_hook(d, download_stopped, current_downloading_url))
  /\ threads' = [threads EXCEPT ![w].hooks = t.hooks + 1]
  /\ UNCHANGED <<program, call, batchVars, chainVars, regVars, manager, download_stopped,
                 current_downloading_url, video_progress, overall_progress_bar,
                 download_button, stop_button>>

\* Inside ydl.download([url]) of a playlist URL the engine takes the videos of
\* the playlist one after the other; j is here the number of the video it has
\* in hand.  Nothing of the worker stands between two videos: the only code of
\* the repository the engine calls is progress_hook, which returns to it.
\* (_terminate_all_processes ends the processes of running_processes, which
\* this path never fills, and processes named yt-dlp; the engine runs inside
\* the worker thread.  On Windows without psutil it ends every python.exe, the
\* window included; that outcome ends the run and is not followed here.)
MgrEngineNextChild ==
  \E w \in DOMAIN threads :
  LET t == threads[w] IN
  /\ program = "mgr"
  /\ t.pc = "download"
  /\ is_playlist_url(t.urls[t.i])
  /\ t.j < Len(t.available_entries)
  /\ threads' = [threads EXCEPT ![w].j = t.j + 1]
  /\ UNCHANGED <<program, call, trace, batchVars, chainVars, regVars, manager, download_stopped,
                 current_downloading_url, message_queue, video_progress,
                 overall_progress_bar, download_button, stop_button>>

\* ydl.download([url]) returns after the last video (True) or raises (False).
MgrDownloadReturn ==
  \E w \in DOMAIN threads :
  LET t == threads[w] IN
  /\ program = "mgr"
  /\ t.pc = "download"
  /\ \E result \in BOOLEAN :
       /\ result => (is_playlist_url(t.urls[t.i]) => t.j = Len(t.available_entries))
       /\ MgrResult(w, result)
  /\ UNCHANGED <<program, call, batchVars, chainVars, regVars, manager, download_stopped,
                 current_downloading_url, video_progress, overall_progress_bar,
                 download_button, stop_button>>

\* update_messages takes a message.  A video_progress message takes it into
\* update_video_progress, where _find_video_by_url looks the entry up; the
\* other messages are dispatched at once.
MgrPoll ==
  /\ program = "mgr"
  /\ manager.consumer.pc = "idle"
  /\ message_queue # <<>>
  /\ LET m == get_nowait(message_queue).item IN
       /\ message_queue' = get_nowait(message_queue).rest
       /\ manager' = IF m.type = "video_progress"
                     THEN [manager EXCEPT !.consumer =
                             [pc |-> "update", msg |-> m,
                              found |-> find_video_by_url(video_progress, m.url),
                              stale |-> FALSE]]
                     ELSE manager
       /\ IF m.type \in {"complete", "error"}
          THEN download_button' = "normal" /\ stop_button' = "disabled"
          ELSE UNCHANGED <<download_button, stop_button>>
  /\ UNCHANGED <<download_stopped, current_downloading_url, video_progress,
                 overall_progress_bar, threads>>
  /\ MgrFrame

\* update_video_progress stores into the entry it has found and returns; then
\* update_overall_progress.
MgrUpdate ==
  /\ program = "mgr"
  /\ ConsumerInTracker
  /\ LET c == manager.consumer
         after == IF c.found = 0 \/ c.stale THEN video_progress
                  ELSE tracker_store(video_progress, c.found, c.msg.status, c.msg.progress,
                                     c.msg.title)
     IN /\ video_progress' = after
        /\ overall_progress_bar' = update_overall_progress(after, overall_progress_bar)
  /\ manager' = [manager EXCEPT !.consumer = ConsumerIdle]
  /\ UNCHANGED <<download_stopped, current_downloading_url, message_queue, download_button,
                 stop_button, threads>>
  /\ MgrFrame

NextManager ==
  \/ MgrStartDownload
  \/ MgrStopDownload
  \/ MgrSetup
  \/ MgrLoopTop
  \/ MgrGetInfo
  \/ MgrPlaylistInfo
  \/ MgrFailed
  \/ MgrTrackerEnter
  \/ MgrTrackerReturn
  \/ MgrProgressHook
  \/ MgrEngineNextChild
  \/ MgrDownloadReturn
  \/ MgrPoll
  \/ MgrUpdate

\* The window of the gui package with its worker.
SpecManager == InitManager /\ [][NextManager]_vars

\* ------------------------------------------------------- the consumer's poll
\* update_messages of gui.py and of gui/main_window.py, run by the event loop
\* of the window, beside a worker that puts events.  call holds the poll:
\* put and handled count the events put and the events handed to their
\* handling, message_count is the local of the running poll, pc is
\* "scheduled" (root.after is pending), "get", "handle" or "ended" (the poll
\* returned or raised without a call of root.after).

\* events the worker puts in a run
MaxEvents == 52

\* "if message_count >= 50: break" of gui/main_window.py; the loop of gui.py
\* has no such test.
poll_limit(impl, message_count) == impl = "gui/" /\ message_count >= 50

InitPoll ==
  /\ program = "poll"
  /\ urls = <<>>
  /\ i = 0
  /\ results = EmptyDict
  /\ outcomes = <<>>
  /\ summary = NoSummary
  /\ pc = "gui"
  /\ InitChain
  /\ InitWindow
  /\ trace = TraceOff
  /\ \E impl \in Implementations :
       call = [op |-> "update_messages", impl |-> impl, pc |-> "scheduled",
               message_count |-> 0, put |-> 0, handled |-> 0]

PollFrame ==
  UNCHANGED <<program, manager, batchVars, chainVars, regVars, trace, download_stopped,
              current_downloading_url, video_progress, overall_progress_bar,
              download_button, stop_button, threads>>

\* The worker: message_queue.put of one more event.
PollPut ==
  /\ program = "poll"
  /\ call.put < MaxEvents
  /\ ~full(message_queue)
  /\ message_queue' = Append(message_queue, LogMsg(Fmt("event %d", <<call.put + 1>>)))
  /\ call' = [call EXCEPT !.put = @ + 1]
  /\ PollFrame

\* The event loop runs the callback root.after has scheduled:
\* message_count = 0.
PollFire ==
  /\ program = "poll"
  /\ call.pc = "scheduled"
  /\ call' = [call EXCEPT !.pc = "get", !.message_count = 0]
  /\ UNCHANGED message_queue
  /\ PollFrame

\* message_queue.get_nowait() at the head of "while True": queue.Empty is
\* caught and root.after schedules the next poll; otherwise the event is
\* taken and counted.
PollGetNowait ==
  /\ program = "poll"
  /\ call.pc = "get"
  /\ IF message_queue = <<>>
     THEN /\ call' = [call EXCEPT !.pc = "scheduled"]
          /\ UNCHANGED message_queue
     ELSE /\ message_queue' = get_nowait(message_queue).rest
          /\ call' = [call EXCEPT !.pc = "handle", !.message_count = @ + 1]
  /\ PollFrame

\* The branch of the event's type.  It calls into the widgets and formats
\* the event's data; an exception it raises is not queue.Empty, so it leaves
\* update_messages before root.after is reached.  Without one the loop goes
\* on, or leaves at the limit to root.after.
PollHandle ==
  /\ program = "poll"
  /\ call.pc = "handle"
  /\ \E raises \in BOOLEAN :
       call' = [call EXCEPT !.handled = @ + 1,
                            !.pc = IF raises THEN "ended"
                                   ELSE IF poll_limit(call.impl, call.message_count)
                                        THEN "scheduled" ELSE "get"]
  /\ UNCHANGED message_queue
  /\ PollFrame

NextPoll ==
  \/ PollPut
  \/ PollFire
  \/ PollGetNowait
  \/ PollHandle

SpecPoll == InitPoll /\ [][NextPoll]_vars

\* The event loop of the window runs every callback that is due, and the
\* callback runs to its end.
SpecPollFair ==
  /\ SpecPoll
  /\ WF_vars(PollFire)
  /\ WF_vars(PollGetNowait)
  /\ WF_vars(PollHandle)

\* ------------------------------------------------ the patch of subprocess.run
\* run_ytdlp_with_tracking of gui.py, called by the workers alive at once.
\* call.run is the module attribute subprocess.run: "original", or the
\* tracked_subprocess_run of the n-th call of worker w, <<w, n>>.  Each
\* worker has its local original_subprocess_run, the number n of its calls
\* and its place: "idle", "saved" (the local is bound), "patched" (the engine
\* runs) and "finally".  overlapped tells whether a call has begun during
\* the call of another worker (history).

\* calls of run_ytdlp_with_tracking one worker makes
MaxCalls == 2

Original == "original"

InitPatch ==
  /\ program = "patch"
  /\ urls = <<>>
  /\ i = 0
  /\ results = EmptyDict
  /\ outcomes = <<>>
  /\ summary = NoSummary
  /\ pc = "gui"
  /\ InitChain
  /\ InitWindow
  /\ trace = TraceOff
  /\ call = [op |-> "run_ytdlp_with_tracking", run |-> <<Original>>, overlapped |-> FALSE,
             workers |-> [w \in 1..MaxRuns |->
                            [pc |-> "idle", original_subprocess_run |-> <<Original>>,
                             n |-> 0, raised |-> FALSE]]]

PatchFrame ==
  UNCHANGED <<program, manager, batchVars, chainVars, regVars, trace, download_stopped,
              current_downloading_url, message_queue, video_progress,
              overall_progress_bar, download_button, stop_button, threads>>

\* original_subprocess_run = subprocess.run
PatchSave ==
  \E w \in 1..MaxRuns :
  /\ program = "patch"
  /\ call.workers[w].pc = "idle"
  /\ call.workers[w].n < MaxCalls
  /\ call' = [call EXCEPT !.workers[w].pc = "saved",
                          !.workers[w].n = @ + 1,
                          !.workers[w].raised = FALSE,
                          !.workers[w].original_subprocess_run = call.run,
                          !.overlapped = @ \/ \E v \in 1..MaxRuns : call.workers[v].pc # "idle"]
  /\ PatchFrame

\* subprocess.run = tracked_subprocess_run
PatchInstall ==
  \E w \in 1..MaxRuns :
  /\ program = "patch"
  /\ call.workers[w].pc = "saved"
  /\ call' = [call EXCEPT !.workers[w].pc = "patched",
                          !.run = <<w, call.workers[w].n>>]
  /\ PatchFrame

\* ydl.download([url]) returns or raises; either way the finally clause is
\* entered.
PatchDownload ==
  \E w \in 1..MaxRuns :
  /\ program = "patch"
  /\ call.workers[w].pc = "patched"
  /\ \E raised \in BOOLEAN :
       call' = [call EXCEPT !.workers[w].pc = "finally",
                            !.workers[w].raised = raised]
  /\ PatchFrame

\* finally: subprocess.run = original_subprocess_run
PatchRestore ==
  \E w \in 1..MaxRuns :
  /\ program = "patch"
  /\ call.workers[w].pc = "finally"
  /\ call' = [call EXCEPT !.workers[w].pc = "idle",
                          !.run = call.workers[w].original_subprocess_run]
  /\ PatchFrame

NextPatch ==
  \/ PatchSave
  \/ PatchInstall
  \/ PatchDownload
  \/ PatchRestore

SpecPatch == InitPatch /\ [][NextPatch]_vars

\* ============================================================ specifications
NextBatch ==
  \/ CliDownloadUrl
  \/ EnhBeginUrl
  \/ EnhAttempt
  \/ EnhSingleReturn
  \/ EnhNextEntry
  \/ EnhEntryDone
  \/ EnhPlaylistReturn
  \/ PrintSummary

SpecBatch == InitBatch /\ [][NextBatch]_vars

Init == InitBatch \/ InitGui
Next == NextBatch \/ NextGui
Spec == Init /\ [][Next]_vars

\* ================================================================== claims
\* The statuses in which an item has finished: done, or failed in any category.
FailedStatusTexts ==
  {"Failed", "Failed (%d unavailable)", "Private/Restricted", "Unavailable",
   "Login Required", "Auth Required", "Network Error"}
PartialStatusTexts == {"Partial (%d/%d)", "Partial (%d/%d) +%d unavailable"}
IsTerminal(status) ==
  status.text \in {"Completed"} \cup PartialStatusTexts \cup FailedStatusTexts
\* How far along an item is: Pending, extracting, downloading, processing, finished.
Stage(status) ==
  IF status.text = "Pending" THEN 0
  ELSE IF status.text \in {"Extracting info...", "Ready to download"} THEN 1
  ELSE IF status.text = "Downloading" THEN 2
  ELSE IF status.text \in {"Processing", "Processing playlist", "Processing (%d/%d)"} THEN 3
  ELSE 4

\* The first n URLs of us were all processed, with outcomes outs, and every
\* failed one that was not processed again later is recorded as failed in res.
ProcessedThrough(us, n, outs, res) ==
  /\ Len(outs) = n
  /\ \A k \in 1..n :
       (~outs[k] /\ \A h \in (k + 1)..n : us[h] # us[k])
         => (us[k] \in DOMAIN res /\ ~res[us[k]])

\* C1: absent a cancel, a failure or exception on one URL never stops the
\* batch: when the batch ends every URL of it has been processed, and a URL
\* that failed is recorded as a failure.
C1_FailureNeverStopsBatch ==
  /\ (program \in {"cli", "enh"} /\ pc = "done")
       => ProcessedThrough(urls, Len(urls), outcomes, results)
  /\ \A w \in DOMAIN threads :
       (threads[w].pc = "done" /\ threads[w].cancelled_at = -1)
         => /\ threads[w].summary # NoSummary
            /\ ProcessedThrough(threads[w].urls, Len(threads[w].urls),
                                threads[w].outcomes, threads[w].results)
\* a batch of two ended whose first URL failed and whose second succeeded
C1_Witness ==
  \E w \in DOMAIN threads :
    /\ threads[w].pc = "done"
    /\ threads[w].cancelled_at = -1
    /\ threads[w].outcomes = <<FALSE, TRUE>>

\* C2: at batch end the total is the number of URLs of the batch, the
\* successes and failures are the numbers of URLs that succeeded and failed,
\* and the result map has one entry per URL of the batch, also when the batch
\* lists the same URL more than once.
SummaryCountsEveryUrl(us, outs, res, s) ==
  /\ s.total = Len(us)
  /\ s.successful = CountTrue(outs)
  /\ s.failed = Len(outs) - CountTrue(outs)
  /\ Cardinality(DOMAIN res) = Len(us)
C2_SummaryCountsEveryUrl ==
  /\ (program \in {"cli", "enh"} /\ pc = "done")
       => SummaryCountsEveryUrl(urls, outcomes, results, summary)
  /\ \A w \in DOMAIN threads :
       threads[w].summary # NoSummary
         => SummaryCountsEveryUrl(threads[w].urls, threads[w].outcomes,
                                  threads[w].results, threads[w].summary)

\* C3: once a cancel has arrived while URL k was in flight, the worker never
\* starts URL k+1 or a later URL of that batch.
C3_NoUrlStartedAfterCancel ==
  \A w \in DOMAIN threads :
    threads[w].cancelled_in \in {"probe", "download", "playlist", "entry"}
      => threads[w].i <= threads[w].cancelled_at

\* C4: when terminate_all_processes returns, the registry holds no handle,
\* also when the worker registers or unregisters a handle meanwhile.
C4_RegistryEmptyAtReturn ==
  [][(term.pc # "returned" /\ term'.pc = "returned") => running_processes' = <<>>]_vars

\* C5: the strategies attempted for an item are a prefix of primary, fallback,
\* audio; each is attempted at most once, only after the one before it failed,
\* and none after the first success.
C5_StrategyOrder ==
  /\ Len(attempts) <= Len(Strategies)
  /\ \A k \in DOMAIN attempts : attempts[k].strategy = Strategies[k]
  /\ \A k \in DOMAIN attempts : k < Len(attempts) => ~attempts[k].ok
\* the audio strategy was reached and succeeded
C5_Witness ==
  /\ program = "enh"
  /\ Len(attempts) = 3
  /\ attempts[3].ok

\* The chain has run out of strategies and has returned.
ChainExhausted ==
  /\ program = "enh"
  /\ pc \notin {"single", "entry"}
  /\ Len(attempts) = Len(Strategies)
  /\ ~Last(attempts).ok

C7_PlaylistFinalStatus ==
  \A w \in DOMAIN threads :
    LET t == threads[w]
        s == t.playlist_success
        n == Len(t.available_entries)
    IN t.final_status # NoStatus =>
         /\ (s >= 1 /\ s = n) => t.final_status.text = "Completed"
         /\ (s >= 1 /\ s < n) => t.final_status.text \in PartialStatusTexts
         /\ (s = 0) => t.final_status.text \in FailedStatusTexts
         /\ Last(t.outcomes) = (s >= 1)

\* C8: a playlist with no resolvable child, its listing empty or all of its
\* entries unavailable, ends Failed and is a batch failure.
C8_EmptyPlaylistFails ==
  \A w \in DOMAIN threads :
    LET t == threads[w] IN
    (t.final_status # NoStatus /\ Len(t.available_entries) = 0)
      => (t.final_status.text \in FailedStatusTexts /\ ~Last(t.outcomes))

\* C9: the status of a tracked item never moves backward through Pending,
\* extracting, downloading, processing, finished; a finished item never
\* changes again.
C9_StatusNeverMovesBack ==
  [][HandleMessage =>
       \A k \in DOMAIN video_progress :
         /\ Stage(video_progress'[k].status) >= Stage(video_progress[k].status)
         /\ IsTerminal(video_progress[k].status)
              => video_progress'[k].status = video_progress[k].status]_vars

\* C10: whenever the overall progress is recomputed it is 100 x finished /
\* tracked, 0 when nothing is tracked and 100 once every item has finished,
\* whatever failure category a failed item ended in.
ExpectedOverall(vp) ==
  IF vp = <<>> THEN 0
  ELSE (Cardinality({k \in DOMAIN vp : IsTerminal(vp[k].status)}) * 100) \div Len(vp)
C10_OverallIsFinishedOverTracked ==
  [][(HandleMessage /\ Head(message_queue).type = "update_overall")
       => overall_progress_bar' = ExpectedOverall(video_progress')]_vars

\* C11: add_video_to_progress for a URL that is already a key of the tracker
\* returns the item_id of the entry it has and leaves the tracker as it was:
\* no entry is added, and index, title, status and progress of the entry stay.
C11_ReAddChangesNothing ==
  (call.op = "add_video_to_progress" /\ KeyIndex(call.before, call.url) # 0) =>
    /\ video_progress = call.before
    /\ call.ret = call.before[KeyIndex(call.before, call.url)].item_id
\* the second of two tracked URLs, already updated to 50 %, is added again
\* under another title
C11_Witness ==
  /\ call.op = "add_video_to_progress"
  /\ KeyIndex(call.before, call.url) = 2
  /\ call.before[2].progress = 50
  /\ call.before[2].title # call.title

\* The video a URL names, as a reader of the URL takes it: the id after
\* watch?v= up to the next parameter, or after youtu.be/ up to the query;
\* "" for a URL that names no video.
VideoNamed(url) ==
  CASE url \in {"v1", "https://www.youtube.com/watch?v=A&t=1", "https://youtu.be/A",
                "https://youtu.be/A?t=1"} -> "A"
    [] url \in {"c1", "https://youtu.be/B"} -> "B"
    [] url = "c2" -> "C"
    [] OTHER -> ""
SameVideo(url1, url2) == VideoNamed(url1) # "" /\ VideoNamed(url1) = VideoNamed(url2)
\* entry k after an update with the arguments of call
Updated(entry) ==
  [entry EXCEPT !.status = IF call.status # NoStatus THEN call.status ELSE @,
                !.progress = IF call.progress # NoProgress THEN call.progress ELSE @,
                !.title = IF call.title # NoTitle THEN call.title ELSE @]

\* C12: update_video_progress for a URL that is no key of the tracker and
\* names the video of no key leaves every entry as it was; an update that
\* finds an entry changes that entry alone, and when the URL is itself a key
\* it is the entry under that key, whatever other key names the same video.
C12_UpdateTouchesOnlyItsEntry ==
  call.op = "update_video_progress" =>
    /\ Len(video_progress) = Len(call.before)
    /\ Cardinality({k \in DOMAIN call.before : video_progress[k] # call.before[k]}) <= 1
    /\ (\A k \in DOMAIN call.before :
          call.before[k].url # call.url /\ ~SameVideo(call.url, call.before[k].url))
       => video_progress = call.before
    /\ KeyIndex(call.before, call.url) # 0
       => \A k \in DOMAIN call.before :
            video_progress[k] = IF k = KeyIndex(call.before, call.url)
                                THEN Updated(call.before[k])
                                ELSE call.before[k]
\* the URL is the second key, the first key names the same video, and the
\* update changed an entry
C12_Witness ==
  /\ call.op = "update_video_progress"
  /\ KeyIndex(call.before, call.url) = 2
  /\ SameVideo(call.url, call.before[1].url)
  /\ video_progress # call.before
\* an update that finds no entry: the tracked URLs name other videos or none
C12_WitnessDropped ==
  /\ call.op = "update_video_progress"
  /\ call.status # NoStatus
  /\ Len(call.before) = 2
  /\ \A k \in DOMAIN call.before :
       call.before[k].url # call.url /\ ~SameVideo(call.url, call.before[k].url)
  /\ VideoNamed(call.url) # ""
  /\ \E k \in DOMAIN call.before : VideoNamed(call.before[k].url) = ""

\* C13: an update sent under a URL that is no key of the tracker goes to the
\* first entry whose key names the same video (watch?v=ID with or without
\* further parameters, youtu.be/ID with or without a query), and to no entry
\* whose key names another video or none.
C13_SameVideoSameItem ==
  (call.op = "update_video_progress" /\ KeyIndex(call.before, call.url) = 0) =>
    \A k \in DOMAIN call.before :
      video_progress[k] =
        IF /\ SameVideo(call.url, call.before[k].url)
           /\ \A h \in 1..(k - 1) : ~SameVideo(call.url, call.before[h].url)
        THEN Updated(call.before[k])
        ELSE call.before[k]
\* an update under the short form with a query reaches the entry registered
\* under the watch form with a parameter, past an entry of another video
C13_Witness ==
  /\ call.op = "update_video_progress"
  /\ call.url = "https://youtu.be/A?t=1"
  /\ Len(call.before) = 2
  /\ call.before[1].url = "https://youtu.be/B"
  /\ call.before[2].url = "https://www.youtube.com/watch?v=A&t=1"
  /\ video_progress[2].status = Text("Downloading")
  /\ video_progress[1] = call.before[1]

\* C14: the messages update_messages has dispatched are, in order, the first
\* of the messages the workers put on message_queue, and the messages still
\* queued are the rest: no message is dispatched twice, skipped or overtaken.
C14_DispatchedInPutOrder ==
  trace.on => trace.sent = trace.handled \o message_queue
\* several messages were dispatched over several polls while others were
\* already waiting behind them
C14_Witness ==
  /\ trace.on
  /\ Len(trace.handled) >= 4
  /\ Len(message_queue) >= 2
  /\ trace.handled[1] # trace.handled[2]

\* C15 as stated: stop_download when no worker is running any more (the batch
\* has completed, or was already cancelled) changes neither download_stopped,
\* nor the registry of processes, nor a worker, and puts no message.
C15_CancelAfterEndIsNoOp ==
  [][(StopDownload /\ \A w \in DOMAIN threads : ~Alive(threads[w]))
       => UNCHANGED <<download_stopped, running_processes, threads, message_queue>>]_vars

\* The messages a step has put on message_queue, and how many are of a type.
NewMessages == SubSeq(message_queue', Len(message_queue) + 1, Len(message_queue'))
CountOf(msgs, type) == Cardinality({k \in DOMAIN msgs : msgs[k].type = type})
\* A step of worker w that was never cancelled.
C16_WorkerStep(w) ==
  LET t == threads[w]
      after == threads'[w]
  IN /\ t.pc # "done"
     /\ message_queue' = message_queue \o NewMessages
     /\ CountOf(NewMessages, "error") = 0
     /\ IF Len(after.outcomes) = Len(t.outcomes) + 1
        THEN /\ CountOf(NewMessages, "update_overall") = 1
             /\ Last(NewMessages) = UpdateOverallMsg
             /\ \E k \in DOMAIN NewMessages :
                  NewMessages[k].type = "video_progress" /\ NewMessages[k].url = t.urls[t.i]
        ELSE /\ CountOf(NewMessages, "update_overall") = 0
             /\ after.outcomes = t.outcomes
     /\ CountOf(NewMessages, "video_progress") > 0 => Len(t.outcomes) = after.i - 1
     /\ IF after.pc = "done"
        THEN /\ CountOf(NewMessages, "complete") = 1
             /\ Last(NewMessages) = CompleteMsg(after.summary)
             /\ after.summary.total = Len(t.urls)
             /\ Len(t.outcomes) = Len(t.urls)
        ELSE CountOf(NewMessages, "complete") = 0

\* C16: a worker that is never cancelled puts update_overall once for each
\* URL, as the last message of the step that settles the URL and after the
\* URL's last video_progress message; it puts no video_progress for a URL
\* once that URL is settled; and it puts "complete" exactly once, when every
\* URL is settled, as the last message it ever puts.
C16_OverallAfterEachUrlCompleteLast ==
  [][(threads' # threads /\ UNCHANGED <<download_button, stop_button>>)
       => \A w \in DOMAIN threads :
            (threads'[w] # threads[w] /\ threads'[w].cancelled_at = -1) => C16_WorkerStep(w)]_vars
\* a batch of two URLs, the first failed and the second downloaded, has just
\* been closed: update_overall of the second URL, the closing line, complete
C16_Witness ==
  \E w \in DOMAIN threads :
    /\ threads[w].pc = "done"
    /\ threads[w].cancelled_at = -1
    /\ threads[w].outcomes = <<FALSE, TRUE>>
    /\ Len(message_queue) >= 3
    /\ Last(message_queue) = CompleteMsg(threads[w].summary)
    /\ message_queue[Len(message_queue) - 2] = UpdateOverallMsg

\* The files that go with a video: captions, a separate audio track, and the
\* separately downloaded video and audio streams that are merged afterwards.
AuxiliaryFiles ==
  {"video.en.srt", "video.en.vtt", "video.mp3", "video.f140.m4a", "video.f251.webm",
   "video.f137.mp4"}
C17_AuxiliaryFinished ==
  /\ call.op = "progress_hook"
  /\ call.d.status = "finished"
  /\ call.d.filename \in AuxiliaryFiles
C17_NoStatusChange ==
  /\ \A k \in DOMAIN call.msgs : call.msgs[k].type # "video_progress"
  /\ video_progress = call.before
  /\ video_progress[1].status = Text("Downloading")

C17_GuiPyHookKeepsDownloading ==
  (C17_AuxiliaryFinished /\ call.impl = "gui.py") => C17_NoStatusChange
C17_GuiPyHookWitness == C17_AuxiliaryFinished /\ call.impl = "gui.py"

\* The inputs whose path holds 'playlist' in any case, and the inputs whose
\* query has a list parameter with a value that starts with PL, UU, FL, RD or
\* LL, written out by hand.
C18_PathHasPlaylist ==
  {"pl", "https://www.youtube.com/PlayList?list=x", "www.youtube.com/playlist?list=PLx",
   "my playlist"}
C18_ListHasPrefix ==
  {"pl", "https://www.youtube.com/watch?v=A&list=PLx",
   "https://www.youtube.com/watch?v=A&list=RDx", "https://youtu.be/A?list=PLx",
   "www.youtube.com/playlist?list=PLx"}

\* C18: is_playlist_url returns True exactly for the inputs whose path holds
\* 'playlist' (in any case) or whose query has a list parameter whose first
\* value starts with PL, UU, FL, RD or LL, and False for every other input.
C18_PlaylistExactlyByPathOrList ==
  call.op = "is_playlist_url"
    => (call.ret = TRUE <=> call.url \in C18_PathHasPlaylist \cup C18_ListHasPrefix)
\* True by the path alone, True by the list parameter alone, and False for a
\* list parameter with another prefix are all called
C18_Witness ==
  /\ call.op = "is_playlist_url"
  /\ call.ret = TRUE
  /\ call.url = "https://www.youtube.com/PlayList?list=x"
C18_WitnessList ==
  /\ call.op = "is_playlist_url"
  /\ call.ret = TRUE
  /\ call.url = "https://www.youtube.com/watch?v=A&list=RDx"
C18_WitnessSingle ==
  /\ call.op = "is_playlist_url"
  /\ call.ret = FALSE
  /\ call.url = "https://www.youtube.com/watch?v=A&list=OLx"

\* The inputs urlparse or the tests after it cannot handle.
C19_Unparsable == {None, NotAStr, "http://[::1/playlist"}
\* C19: is_playlist_url never raises, whatever the input; it returns False
\* for every input that cannot be parsed; and the answer is a function of the
\* input alone.
C19_NeverRaisesFalseWhenUnparsable ==
  call.op = "is_playlist_url"
    => /\ ~call.raised
       /\ call.ret \in BOOLEAN
       /\ call.url \in C19_Unparsable => call.ret = FALSE
       /\ call.url \in {"", "not_a_url", "https://vimeo.com/123456",
                        "https://www.notyoutube.com/watch?v=test"} => call.ret = FALSE
\* the call with a missing value, and the call with a host that cannot be parsed
C19_Witness ==
  /\ call.op = "is_playlist_url"
  /\ call.url = None
  /\ call.ret = FALSE
C19_WitnessValueError ==
  /\ call.op = "is_playlist_url"
  /\ call.url = "http://[::1/playlist"
  /\ call.ret = FALSE

\* The lines without the blanks around them, and the lines that hold neither
\* 'youtube.com' nor 'youtu.be', written out by hand.
C20_Strip(line) ==
  CASE line = " https://youtu.be/A " -> "https://youtu.be/A"
    [] line = "  " -> ""
    [] OTHER -> line
C20_NotYouTube == {"https://vimeo.com/123456", "not_a_url", "quit"}
C20_Given(lines) == [k \in DOMAIN lines |-> C20_Strip(lines[k])]
\* The lines the caller looks at as URLs: a file skips blank lines and
\* comments, the text box skips blank lines, the prompt reads up to 'quit' or
\* to a blank line that follows a URL it has taken.
C20_PromptEnd(given) ==
  LET ends == {k \in DOMAIN given :
                 \/ given[k] = "quit"
                 \/ /\ given[k] = ""
                    /\ \E h \in 1..(k - 1) : given[h] \notin C20_NotYouTube \cup {""}}
  IN IF ends = {} THEN Len(given) + 1 ELSE CHOOSE k \in ends : \A h \in ends : k <= h
C20_Read(op, given) ==
  {k \in DOMAIN given :
     /\ given[k] # ""
     /\ op = "read_urls_from_file" => given[k] # "# https://youtu.be/A"
     /\ op = "main" => k < C20_PromptEnd(given)}
C20_Rejected(op, given) == {k \in C20_Read(op, given) : given[k] \in C20_NotYouTube}
\* taken is the sequence of given[k] for the k of S, in the order of k
C20_InOrder(taken, given, S) ==
  /\ Len(taken) = Cardinality(S)
  /\ \A k \in S : taken[Cardinality({h \in S : h <= k})] = given[k]
C20_Case == call.op \in {"read_urls_from_file", "start_download", "main"}

\* C20: the batch holds no URL without 'youtube.com' or 'youtu.be'; every URL
\* that is turned away is reported (a warning with its line, an "Invalid
\* YouTube URL" answer, or the count of invalid URLs in the warning box of
\* the window, which then starts no worker); and the batch holds the URLs
\* that are taken in the order they were given.
C20_OnlyYouTubeReportedInOrder ==
  C20_Case =>
    LET given == C20_Given(call.lines)
        rejected == C20_Rejected(call.op, given)
    IN /\ \A k \in DOMAIN call.urls : call.urls[k] \notin C20_NotYouTube \cup {"", "  "}
       /\ IF call.op = "start_download"
          THEN /\ call.invalid = Cardinality(rejected)
               /\ rejected # {} => ~call.started /\ call.urls = <<>>
               /\ rejected = {} => C20_InOrder(call.urls, given, C20_Read(call.op, given))
          ELSE /\ C20_InOrder([k \in DOMAIN call.printed |-> call.printed[k].url], given, rejected)
               /\ \A k \in rejected : \E p \in DOMAIN call.printed : call.printed[p].line_num = k
               /\ C20_InOrder(call.urls, given, C20_Read(call.op, given) \ rejected)
       /\ call.started <=> call.urls # <<>>
\* a file with a URL of another site between two YouTube URLs: the batch is
\* the two URLs in their order and line 2 is reported
C20_Witness ==
  /\ call.op = "read_urls_from_file"
  /\ call.lines = <<"pl", "https://vimeo.com/123456", " https://youtu.be/A ">>
  /\ call.urls = <<"pl", "https://youtu.be/A">>
  /\ Len(call.printed) = 1
\* the text box with one URL of another site: no worker is started
C20_WitnessWindow ==
  /\ call.op = "start_download"
  /\ call.lines = <<"v1", "not_a_url", "pl">>
  /\ ~call.started
  /\ call.invalid = 1
\* the prompt: a URL is turned away, two are taken
C20_WitnessPrompt ==
  /\ call.op = "main"
  /\ call.lines = <<"pl", "not_a_url", "v1">>
  /\ call.urls = <<"pl", "v1">>

\* C21: a playlist whose listing holds at least one unavailable entry and
\* whose available entries were all downloaded ends Partial, not Completed,
\* and is one success of the batch.
C21_UnavailableMakesPartial ==
  \A w \in DOMAIN threads :
    LET t == threads[w]
        n == Len(t.available_entries)
    IN (/\ t.final_status # NoStatus
        /\ t.unavailable_count >= 1
        /\ n >= 1
        /\ t.playlist_success = n)
         => /\ t.final_status.text \in PartialStatusTexts
            /\ Last(t.outcomes)
            /\ t.results[t.urls[t.i]]

\* C22: download_single_video returns True when the metadata query and the
\* download both succeed, and False when the metadata query raises.
C22_TrueOnSuccessFalseOnExtractionFailure ==
  call.op = "download_single_video"
    => /\ (call.probe = "public" /\ call.dl = "ok") => call.ret = TRUE
       /\ call.probe = "raise" => call.ret = FALSE
\* The first half alone.
C22_TrueWhenBothSucceed ==
  (call.op = "download_single_video" /\ call.probe = "public" /\ call.dl = "ok")
    => call.ret = TRUE

\* C23: _extract_video_id is idempotent: applied to its own result it gives
\* that result back, for every input, with or without a video id.
C23_ExtractIsIdempotent ==
  call.op = "extract_video_id" => call.again = call.ret
\* The part for the inputs without a video id.
C23_IdempotentWithoutId ==
  (call.op = "extract_video_id" /\ call.ret.none) => call.again = call.ret
C23_WithoutIdWitness ==
  call.op = "extract_video_id" /\ call.url = "https://vimeo.com/123456" /\ call.ret.none

\* the number of characters of a name given as runs
C24_Length(name) ==
  LET L[k \in 0..Len(name)] == IF k = 0 THEN 0 ELSE L[k - 1] + name[k].n
  IN L[Len(name)]

\* C24: the result of sanitize_filename holds none of the characters
\* < > : " / \ | ? * and is at most 200 characters long.
C24_NoIllegalCharAtMost200 ==
  call.op = "sanitize_filename"
    => /\ \A k \in DOMAIN call.ret :
            call.ret[k].c \notin {"<", ">", ":", "\"", "/", "\\", "|", "?", "*"}
       /\ C24_Length(call.ret) <= 200
\* a title of 201 characters with an illegal one: replaced, and cut to 200
C24_Witness ==
  /\ call.op = "sanitize_filename"
  /\ call.filename = <<[c |-> "/", n |-> 1], [c |-> "T", n |-> 200]>>
  /\ call.ret = <<[c |-> "_", n |-> 1], [c |-> "T", n |-> 199]>>
\* a title that is longer than the limit only before the blanks are stripped
C24_WitnessStripped ==
  /\ call.op = "sanitize_filename"
  /\ call.filename = <<[c |-> " ", n |-> 1], [c |-> "T", n |-> 200]>>
  /\ call.ret = <<[c |-> "T", n |-> 200]>>

C25_GuiPyWorkerLeavesRegistry ==
  [][(program = "gui" /\ video_progress' # video_progress)
       => \/ Len(message_queue') < Len(message_queue)
          \/ (download_button = "normal" /\ download_button' = "disabled")]_vars
C25_GuiPyWitness ==
  program = "gui" /\ video_progress # <<>> /\ \E w \in DOMAIN threads : threads[w].i >= 1

\* C26: when a batch has run to its end without a cancel and every message
\* has been handled, every tracked item is in a terminal status (Completed, or
\* Failed under one of its reasons); none is left Pending or Downloading.
\* The batch is over: every worker has left its loop, none was cancelled, and
\* the queue is empty.
C26_BatchOver ==
  /\ threads # <<>>
  /\ \A w \in DOMAIN threads :
       /\ ~Alive(threads[w])
       /\ threads[w].cancelled_at = -1
       /\ threads[w].i = Len(threads[w].urls)
       /\ threads[w].summary # NoSummary
  /\ ~download_stopped
  /\ message_queue = <<>>
C26_AllTerminal == \A k \in DOMAIN video_progress : IsTerminal(video_progress[k].status)
\* gui.py
C26_GuiPyAllTerminalAtEnd == (program = "gui" /\ C26_BatchOver) => C26_AllTerminal
C26_GuiPyWitness ==
  /\ program = "gui" /\ C26_BatchOver /\ Len(video_progress) >= 2
  /\ \E k \in DOMAIN video_progress : video_progress[k].status.text # "Completed"

C26_EndedByErrorLeavesPending ==
  /\ program = "mgr" /\ manager.methods = DownloaderMethods
  /\ threads # <<>> /\ \A w \in DOMAIN threads : ~Alive(threads[w]) /\ threads[w].cancelled_at = -1
  /\ message_queue = <<>> /\ download_button = "normal" /\ ~download_stopped
  /\ video_progress # <<>>
  /\ \A k \in DOMAIN video_progress : video_progress[k].status = Text("Pending")

C27_GuiPyNoLaterChildStarted ==
  [][\A w \in DOMAIN threads :
       (program = "gui" /\ threads[w].cancelled_in = "entry" /\ threads[w].pc = "playlist"
          /\ w \in DOMAIN threads')
         => threads'[w].pc # "entry"]_vars
C27_GuiPyWitness ==
  \E w \in DOMAIN threads :
    /\ program = "gui" /\ threads[w].cancelled_in = "entry" /\ threads[w].pc = "top"
    /\ threads[w].j = 1 /\ Len(threads[w].available_entries) = 2

\* C28: once download_stopped is set, a call of progress_hook by the engine
\* puts no message at all (no progress, no status of the item in flight) and
\* calls the termination of the processes.
C28_StoppedHookIsSilentAndTerminates ==
  (call.op = "hook" /\ call.stopped)
    => /\ call.msgs = <<>>
       /\ call.calls \in {<<"terminate_all_processes">>, <<"_terminate_all_processes">>}
\* the call is one that would have reported the item had the flag not been set
C28_Witness ==
  /\ call.op = "hook" /\ call.stopped /\ call.impl = "gui.py" /\ call.cur = "v1"
  /\ call.d.status = "downloading"
  /\ ~IsSubtitle(call.d.filename) /\ ~HasFormatId(call.d.filename)
C28_WitnessManager ==
  /\ call.op = "hook" /\ call.stopped /\ call.impl = "gui/" /\ call.cur = "v1"
  /\ call.d.status = "finished"
\* without the flag the hook does not call the termination
C28_TerminationOnlyWhenStopped ==
  (call.op = "hook" /\ ~call.stopped) => call.calls = <<>>

\* C29: terminate_all_processes sends terminate() to every running handle of
\* its list before it sends any kill(); it kills only handles that are still
\* running after the wait; and an error on one handle leaves no other handle
\* of the list out of either loop.
C29_RoundsOf(loop) == {n \in DOMAIN term.rounds : term.rounds[n].loop = loop}
C29_TerminateAllThenKillSurvivors ==
  LET rounds == term.rounds IN
  \* every handle of the first copy had its round of the first loop before the first kill round
  /\ \A n \in C29_RoundsOf("kill") : \A p \in Range(term.first) :
       \E m \in C29_RoundsOf("terminate") : m < n /\ rounds[m].proc = p
  /\ term.pc \in {"kill", "sweep", "returned"}
       => \A p \in Range(term.first) : \E m \in C29_RoundsOf("terminate") : rounds[m].proc = p
  /\ term.pc \in {"sweep", "returned"}
       => \A p \in Range(term.second) : \E m \in C29_RoundsOf("kill") : rounds[m].proc = p
  \* a running handle is signalled (or the call raised), a finished one is not
  /\ \A n \in DOMAIN rounds :
       IF rounds[n].alive THEN rounds[n].did \in {"signal", "error"} ELSE rounds[n].did = "passed"
\* an error on the first of two running handles, the second one signalled
\* after it, and a kill sent later to a handle that ignored terminate()
C29_Witness ==
  /\ Len(term.first) >= 2
  /\ \E n, m \in C29_RoundsOf("terminate") :
       n < m /\ term.rounds[n].did = "error" /\ term.rounds[m].did = "signal"
  /\ \E n \in C29_RoundsOf("kill") : term.rounds[n].did = "signal"
\* an error in the kill loop with a later handle killed all the same
C29_WitnessKillError ==
  \E n, m \in C29_RoundsOf("kill") :
    n < m /\ term.rounds[n].did = "error" /\ term.rounds[m].did = "signal"
\* a handle that tracked_subprocess_run appends during the wait is in the
\* second copy only: it is killed without a terminate() before
C29_LateHandleKilledUnterminated ==
  \E n \in C29_RoundsOf("kill") :
    /\ term.rounds[n].did = "signal"
    /\ term.rounds[n].proc \notin Range(term.first)

\* C30: the tracker never holds two entries for the same video: adding a
\* second spelling of the URL of a video that is tracked already (the same
\* video id) adds no entry.
C30_OneEntryPerVideo ==
  \A k, h \in DOMAIN video_progress :
    (k # h) => ~UrlsMatchOf[video_progress[k].url][video_progress[h].url]
\* what holds: no two entries under the same spelling
C30_OneEntryPerSpelling ==
  \A k, h \in DOMAIN video_progress :
    (k # h) => video_progress[k].url # video_progress[h].url

\* C31: a failed item gets exactly one category of the closed set, decided by
\* the error text alone, and the same error text gives a playlist video the
\* category it gives a URL of the batch.
C31_Categories ==
  {Text("Private/Restricted"), Text("Unavailable"), Text("Login Required"),
   Text("Auth Required"), Text("Network Error"), Text("Failed")}
C31_SameCategoryForChild ==
  call.op = "classify_error"
    => /\ call.standalone \in C31_Categories
       /\ call.child = call.standalone
\* what holds: each of the two classifications gives one category of the set
C31_OneCategoryEach ==
  call.op = "classify_error"
    => call.standalone \in C31_Categories /\ call.child \in C31_Categories
C31_Witness ==
  /\ call.op = "classify_error"
  /\ call.standalone = Text("Network Error") /\ call.child = Text("Failed")

\* C32: when the metadata query of a playlist URL raises or gives nothing,
\* the playlist is marked failed and recorded as one failure, none of its
\* videos is started, no error message ends the batch, and the worker goes
\* back to the head of its loop for the next URL.
C32_ProbeFailed(w) ==
  LET t == threads[w]
      after == threads'[w]
      url == t.urls[t.i]
  IN /\ after.pc = "top"
     /\ after.i = t.i
     /\ after.results = DictSet(t.results, url, FALSE)
     /\ after.outcomes = Append(t.outcomes, FALSE)
     /\ after.j = 0 /\ after.available_entries = <<>> /\ after.processed_videos = {}
     /\ message_queue' = message_queue \o NewMessages
     /\ CountOf(NewMessages, "add_playlist_video") = 0
     /\ CountOf(NewMessages, "error") = 0
     /\ CountOf(NewMessages, "complete") = 0
     /\ \A k \in DOMAIN NewMessages :
          NewMessages[k].type = "video_progress"
            => NewMessages[k].url = url /\ NewMessages[k].status.text \in FailedStatusTexts
     /\ CountOf(NewMessages, "video_progress") = 1
C32_FailedQueryFailsPlaylistOnly ==
  [][\A w \in DOMAIN threads :
       (/\ program = "gui"
        /\ w \in DOMAIN threads'
        /\ threads[w].pc = "probe"
        /\ is_playlist_url(threads[w].urls[threads[w].i])
        /\ threads'[w].pc \notin {"probe", "playlist"})
         => C32_ProbeFailed(w)]_vars
\* the query of the playlist, first of two URLs, has just failed: the worker
\* is back at the head of its loop with the second URL to come
C32_Witness ==
  \E w \in DOMAIN threads :
    /\ program = "gui"
    /\ threads[w].urls = <<"pl", "v1">>
    /\ threads[w].outcomes = <<FALSE>>
    /\ threads[w].i = 1 /\ threads[w].pc = "top"
    /\ threads[w].final_status = NoStatus
    /\ threads[w].cancelled_at = -1 /\ ~download_stopped

\* C33: the worker puts an "error" message only when its setup fails, before
\* its first URL: then exactly one, with no message about an item and no
\* "complete"; in no other case does it put an "error" message.
\* gui.py: an "error" message is put only by a worker that has not begun a URL.
C33_ErrorOnlyBeforeFirstUrl ==
  [][(program = "gui" /\ CountOf(NewMessages, "error") > 0)
       => \A w \in DOMAIN threads :
            (w \in DOMAIN threads' /\ threads'[w] # threads[w]) => threads[w].i = 0]_vars
\* gui package: the step that puts "error" is the failed setup; it puts
\* nothing else and ends the worker, which has put nothing before.
C33_ManagerErrorIsSetupFailure ==
  [][(program = "mgr" /\ CountOf(NewMessages, "error") > 0)
       => /\ NewMessages = <<ErrorMsg(Text("Download error: no attribute 'set_format'"))>>
          /\ \A w \in DOMAIN threads :
               threads'[w] # threads[w]
                 => /\ threads[w].pc = "setup" /\ threads[w].i = 0
                    /\ threads'[w].pc = "done" /\ threads'[w].i = 0
                    /\ threads'[w].summary = NoSummary]_vars
C33_ManagerWitness ==
  /\ program = "mgr" /\ manager.methods = DownloaderMethods
  /\ message_queue = <<ErrorMsg(Text("Download error: no attribute 'set_format'"))>>
  /\ \A w \in DOMAIN threads : threads[w].pc = "done"

\* C34: for the listing of a playlist, the number of unavailable videos is
\* the size of the listing minus the number of videos kept; a log line with
\* that number is put whenever it is positive; and an unavailable video (a
\* None of the listing) is not among the videos kept, so it is neither
\* registered nor started.
C34_UnavailableCountedAndLogged ==
  call.op = "filter_entries"
    => /\ call.unavailable_count = Len(call.entries) - Len(call.available_entries)
       /\ call.unavailable_count = Cardinality({k \in DOMAIN call.entries : call.entries[k] = None})
       /\ None \notin Range(call.available_entries)
       /\ Range(call.available_entries) = Range(call.entries) \ {None}
       /\ call.unavailable_count > 0
            => \E k \in DOMAIN call.log :
                 /\ call.log[k].type = "log"
                 /\ call.log[k].status.args # <<>>
                 /\ Last(call.log[k].status.args) = call.unavailable_count
\* a listing of two with one unavailable video, in gui.py and in gui/
C34_Witness ==
  /\ call.op = "filter_entries" /\ call.impl = "gui.py"
  /\ Len(call.entries) = 2 /\ call.unavailable_count = 1 /\ call.entries[1] = None
C34_WitnessManager ==
  /\ call.op = "filter_entries" /\ call.impl = "gui/"
  /\ Len(call.entries) = 2 /\ call.unavailable_count = 2
\* gui.py: no message ever names None as the URL of a video, and the worker
\* never has None among its videos or as the video in hand
C34_GuiPyNoneNeverStarted ==
  program = "gui"
    => /\ \A k \in DOMAIN message_queue :
            message_queue[k].type \in {"add_playlist_video", "video_progress"}
              => message_queue[k].url # None
       /\ \A k \in DOMAIN video_progress : video_progress[k].url # None
       /\ \A w \in DOMAIN threads :
            /\ None \notin Range(threads[w].available_entries)
            /\ None \notin threads[w].processed_videos
            /\ threads[w].pc = "entry" => threads[w].video_url # None
            /\ Len(threads[w].available_entries) + threads[w].unavailable_count <= MaxEntries

\* C35: each downloaded video of a playlist has in its file name its
\* position in the listing of the playlist, from 1 and with two digits, so
\* that unavailable entries leave gaps, and no two videos of a playlist have
\* the same number.
C35_NumberedByListingPosition ==
  call.op = "numbered_children"
    => /\ \A k \in DOMAIN call.children :
            call.children[k].number = Pad2(call.children[k].position)
       /\ \A k, h \in DOMAIN call.children :
            k # h => call.children[k].number # call.children[h].number
\* what holds in gui.py too: the numbers have two digits, start at 01, grow
\* along the listing and are all different
C35_NumbersDistinctAndGrowing ==
  call.op = "numbered_children"
    => \A k \in DOMAIN call.children :
         /\ Len(call.children[k].number) = 2
         /\ call.children[k].number # <<0, 0>>
         /\ \A h \in DOMAIN call.children :
              k < h => (call.children[k].number[1] * 10 + call.children[k].number[2]
                         < call.children[h].number[1] * 10 + call.children[h].number[2])
\* enhanced_downloader.py numbers by the position in the listing
C35_EnhancedByListingPosition ==
  (call.op = "numbered_children" /\ call.impl = "enh")
    => \A k \in DOMAIN call.children :
         call.children[k].number = Pad2(call.children[k].position)
C35_EnhancedWitness ==
  /\ call.op = "numbered_children" /\ call.impl = "enh"
  /\ call.entries = <<None, "c1">> /\ call.children[1].number = <<0, 2>>

\* C36: the number of messages waiting in message_queue never exceeds a fixed
\* capacity: there is a number of waiting messages at which the queue is full
\* and a further put waits.  Read on the queue lengths that are followed
\* here: a queue that holds MaxQueue messages is full.
C36_QueueHasCapacity ==
  Len(message_queue) >= MaxQueue => full(message_queue)
\* what holds: the queue is never full, at any length
C36_QueueNeverFull == ~full(message_queue)

C37_NoUrlWhileFlagSet ==
  [][(download_button' = download_button /\ download_stopped)
       => \A w \in DOMAIN threads :
            threads[w].cancelled_at # -1 => threads'[w].i = threads[w].i]_vars

\* C37: a cancelled worker is still running beside the worker of a batch
\* started after the cancel.
C37_RestartBesideCancelledWorker ==
  /\ program = "mgr"
  /\ ~download_stopped
  /\ \E w \in DOMAIN threads :
       /\ threads[w].cancelled_at # -1
       /\ Alive(threads[w])
       /\ threads[w].i < Len(threads[w].urls)

C38_GuiPyEntriesStay ==
  [][(program = "gui" /\ ~(download_button = "normal" /\ download_button' = "disabled"))
       => \A k \in DOMAIN video_progress :
            \E h \in DOMAIN video_progress' : video_progress'[h].url = video_progress[k].url]_vars

\* C38, gui.py: the children of a playlist stand in the registry beside the
\* entry of another URL of the batch.
C38_GuiPyWitness ==
  /\ program = "gui"
  /\ \E k, h \in DOMAIN video_progress :
       /\ video_progress[k].url \in VideoUrls
       /\ video_progress[h].url \in ChildUrls

\* C39: every event the worker enqueues is eventually handled by the
\* consumer: whenever events have been put that were not handed to their
\* handling, a later state has all events put so far handled.
C39_EveryEventEventuallyHandled ==
  (program = "poll" /\ call.put > call.handled) ~> (call.put = call.handled)

\* C39: each poll schedules the next poll: update_messages never ends
\* without root.after.
C39_NextPollAlwaysScheduled ==
  program = "poll" => call.pc # "ended"

\* C39: each poll handles at most 50 events.
C39_AtMostFiftyPerPoll ==
  program = "poll" => call.message_count <= 50

\* C39, what gui/main_window.py keeps: its polls handle at most 50 events.
C39_PackageAtMostFiftyPerPoll ==
  (program = "poll" /\ call.impl = "gui/") => call.message_count <= 50

\* C39: a poll of gui/main_window.py has left its loop at the limit with
\* events still queued.
C39_WitnessLimit ==
  /\ program = "poll"
  /\ call.impl = "gui/"
  /\ call.pc = "scheduled"
  /\ call.message_count = 50
  /\ message_queue # <<>>

\* C39, what the code keeps: in a run in which no handling raises, every
\* event put is eventually handled.
C39_HandledUnlessHandlingRaises ==
  \/ <>(program = "poll" /\ call.pc = "ended")
  \/ ((program = "poll" /\ call.put > call.handled) ~> (call.put = call.handled))

\* C40: after every tracked engine call has returned, subprocess.run is the
\* original function again, whether the calls returned or raised and also
\* when the calls of two workers overlapped.
C40_OriginalRestored ==
  (program = "patch" /\ \A w \in 1..MaxRuns : call.workers[w].pc = "idle")
    => call.run = <<Original>>

\* C40, what the code keeps: the function is the original one again after
\* calls that did not overlap, also after a call that raised.
C40_RestoredWithoutOverlap ==
  (/\ program = "patch"
   /\ ~call.overlapped
   /\ \A w \in 1..MaxRuns : call.workers[w].pc = "idle")
    => call.run = <<Original>>

\* C40: a call that raised has returned, no call overlapped another, and
\* the function is the original one.
C40_WitnessRaised ==
  /\ program = "patch"
  /\ ~call.overlapped
  /\ call.run = <<Original>>
  /\ \E w \in 1..MaxRuns :
       /\ call.workers[w].pc = "idle"
       /\ call.workers[w].n > 0
       /\ call.workers[w].raised

====
